---- MODULE Spec2Model ----
(***************************************************************************)
(* Model of find-serverless-stacks: the rule engine (internal/detector/    *)
(* rules.go) and the concurrent detection pipeline of the Detector         *)
(* (DetectServerlessStacks, processStacksConcurrently, worker,             *)
(* processStack, convertToModel).                                          *)
(*                                                                         *)
(* Go pointers (to string, time.Time, types.Stack, models.Stack) are       *)
(* modelled as sequences of length at most one: <<>> is nil, <<x>> points  *)
(* to x.  An absent name is therefore different from an empty name.        *)
(* Times are integers, 0 being the zero time.Time.                         *)
(***************************************************************************)
EXTENDS Integers, Sequences, FiniteSets, TLC

\* ------------------------------------------------------------------ bounds
MaxStacks == 2
MaxPool == 2
MaxRules == 3

\* --------------------------------------------------------------- optionals
Nil == <<>>

Some(x) == <<x>>

IsNil(p) == p = <<>>

Deref(p) == p[1]

ZeroTime == 0

\* ------------------------------------------------------------------ errors
ErrorTypePermission == "PERMISSION_DENIED"

ErrorTypeInvalidRegion == "INVALID_REGION"

ErrorTypeRateLimit == "RATE_LIMIT"

ErrorTypeNetwork == "NETWORK_ERROR"

ErrorTypeUnknown == "UNKNOWN_ERROR"

\* An error value is the chain of its layers, the outermost first, nil being
\* the empty chain.  A layer is the Type and the Message of an *Error; the
\* layer of errors.New or fmt.Errorf has its text as the message and no
\* type.  The Cause of an *Error, like the error behind %w, is the rest of
\* the chain.
Layer(type, message) == [Type |-> type, Message |-> message]

\* errors.New(text), or fmt.Errorf without %w.
NewError(text) == <<Layer("", text)>>

\* &Error{Type: type, Message: message, Cause: cause}
CustomError(type, message, cause) == <<Layer(type, message)>> \o cause

\* fmt.Errorf("context: %w", err)
Wrap(context, err) == <<Layer("", context)>> \o err

\* errors.Unwrap, and (*Error).Unwrap: the cause.
Unwrap(err) == IF Len(err) > 1 THEN Tail(err) ELSE Nil

RECURSIVE ErrorText(_)
\* err.Error(): the message, then ": " and the text of the cause if there
\* is one.
ErrorText(err) ==
    IF Len(err) = 1 THEN err[1].Message
    ELSE err[1].Message \o ": " \o ErrorText(Tail(err))

\* context.Canceled and context.DeadlineExceeded, the two values of ctx.Err()
\* of a context that has ended.
Canceled == NewError("context canceled")

DeadlineExceeded == NewError("context deadline exceeded")

\* errors.Is(err, target) for a target without layers of its own.
ErrorIs(err, target) == \E k \in DOMAIN err : <<err[k]>> = target

\* ------------------------------------------------------- program constants
SentinelLogicalId == "ServerlessDeploymentBucket"

BucketResourceType == "AWS::S3::Bucket"

BucketReason == "Contains resource with logical ID 'ServerlessDeploymentBucket'"

DefaultMaxWorkers == 10

\* ------------------------------------------------------------- rule engine
\* hasServerlessDeploymentBucket: some single entry carries both the
\* sentinel logical id and the bucket type, both pointers being non-nil.
RECURSIVE hasBucketFrom(_, _)
hasBucketFrom(resources, i) ==
    IF i > Len(resources) THEN FALSE
    ELSE IF /\ ~IsNil(resources[i].LogicalResourceId)
            /\ Deref(resources[i].LogicalResourceId) = SentinelLogicalId
            /\ ~IsNil(resources[i].ResourceType)
            /\ Deref(resources[i].ResourceType) = BucketResourceType
         THEN TRUE
         ELSE hasBucketFrom(resources, i + 1)

\* Variant that looks for the id and for the type independently.
hasBucketAcrossEntries(resources) ==
    /\ \E k \in DOMAIN resources :
          resources[k].LogicalResourceId = Some(SentinelLogicalId)
    /\ \E k \in DOMAIN resources :
          resources[k].ResourceType = Some(BucketResourceType)

\* Variant that takes an empty collection for a match.
hasBucketOrNothing(resources) ==
    resources = <<>> \/ hasBucketFrom(resources, 1)

hasServerlessDeploymentBucket(resources) == hasBucketFrom(resources, 1)

\* A rule is either the built-in bucket rule or a mockDetectionRule with a
\* fixed answer (matches, reason).
BucketRule == [kind |-> "bucket", name |-> "ServerlessDeploymentBucket",
               matches |-> FALSE, reason |-> ""]

MockRule(n, m, r) == [kind |-> "mock", name |-> n, matches |-> m, reason |-> r]

\* DetectionRule.Check: (matched, reason)
Check(rule, resources, details) ==
    IF rule.kind = "bucket"
    THEN IF hasServerlessDeploymentBucket(resources)
         THEN [matches |-> TRUE, reason |-> BucketReason]
         ELSE [matches |-> FALSE, reason |-> ""]
    ELSE IF rule.matches
         THEN [matches |-> TRUE, reason |-> rule.reason]
         ELSE [matches |-> FALSE, reason |-> ""]

NewRuleEngine == <<BucketRule>>

\* Variant that refuses a rule whose name is already registered.
AddRuleUnlessNamed(rules, rule) ==
    IF \E k \in DOMAIN rules : rules[k].name = rule.name THEN rules
    ELSE Append(rules, rule)

AddRule(rules, rule) == Append(rules, rule)

\* The loop of RuleEngine.Evaluate from rule i on; checked counts the calls
\* of Check made so far.
RECURSIVE EvaluateFrom(_, _, _, _, _)
EvaluateFrom(rules, i, acc, resources, details) ==
    IF i > Len(rules) THEN acc
    ELSE LET c == Check(rules[i], resources, details)
             next == IF c.matches
                     THEN [isServerless |-> TRUE,
                           reasons |-> Append(acc.reasons, c.reason),
                           checked |-> acc.checked + 1]
                     ELSE [acc EXCEPT !.checked = acc.checked + 1]
         IN EvaluateFrom(rules, i + 1, next, resources, details)

\* Variant that leaves the loop at the first matching rule.
RECURSIVE EvaluateFirstMatchFrom(_, _, _, _, _)
EvaluateFirstMatchFrom(rules, i, acc, resources, details) ==
    IF i > Len(rules) THEN acc
    ELSE LET c == Check(rules[i], resources, details)
         IN IF c.matches
            THEN [isServerless |-> TRUE,
                  reasons |-> Append(acc.reasons, c.reason),
                  checked |-> acc.checked + 1]
            ELSE EvaluateFirstMatchFrom(rules, i + 1,
                     [acc EXCEPT !.checked = acc.checked + 1],
                     resources, details)

EvaluateFirstMatch(rules, resources, details) ==
    EvaluateFirstMatchFrom(rules, 1,
        [isServerless |-> FALSE, reasons |-> <<>>, checked |-> 0],
        resources, details)

\* Variant that drops empty reason strings.
RECURSIVE EvaluateSkipEmptyFrom(_, _, _, _, _)
EvaluateSkipEmptyFrom(rules, i, acc, resources, details) ==
    IF i > Len(rules) THEN acc
    ELSE LET c == Check(rules[i], resources, details)
             next == IF c.matches
                     THEN [isServerless |-> TRUE,
                           reasons |-> IF c.reason = "" THEN acc.reasons
                                       ELSE Append(acc.reasons, c.reason),
                           checked |-> acc.checked + 1]
                     ELSE [acc EXCEPT !.checked = acc.checked + 1]
         IN EvaluateSkipEmptyFrom(rules, i + 1, next, resources, details)

EvaluateSkipEmpty(rules, resources, details) ==
    EvaluateSkipEmptyFrom(rules, 1,
        [isServerless |-> FALSE, reasons |-> <<>>, checked |-> 0],
        resources, details)

Evaluate(rules, resources, details) ==
    EvaluateFrom(rules, 1,
        [isServerless |-> FALSE, reasons |-> <<>>, checked |-> 0],
        resources, details)

\* ------------------------------------------------------------ result model
\* The zero value of models.Stack; its tag map is nil until it is made.
ZeroStack == [StackName |-> "", StackID |-> "", Region |-> "",
              CreatedAt |-> ZeroTime, UpdatedAt |-> ZeroTime,
              Description |-> "", StackTags |-> Nil, Reasons |-> <<>>]

EmptyMap == <<>>

MapPut(m, k, v) == [x \in (DOMAIN m) \cup {k} |-> IF x = k THEN v ELSE m[x]]

\* The tag loop of convertToModel: entries with a nil key or value are left
\* out, a later entry overwrites an earlier one with the same key.
RECURSIVE ConvertTags(_, _, _)
ConvertTags(tags, i, m) ==
    IF i > Len(tags) THEN m
    ELSE IF ~IsNil(tags[i].Key) /\ ~IsNil(tags[i].Value)
         THEN ConvertTags(tags, i + 1,
                          MapPut(m, Deref(tags[i].Key), Deref(tags[i].Value)))
         ELSE ConvertTags(tags, i + 1, m)

\* Variant without the fallback for zero timestamps.
convertToModelNoTimeFallback(region, summary, details, reasons, now) ==
    LET s1 == [ZeroStack EXCEPT !.Region = region, !.Reasons = reasons,
                  !.StackName = IF IsNil(summary.StackName) THEN ""
                                ELSE Deref(summary.StackName),
                  !.StackID = IF IsNil(summary.StackId) THEN ""
                              ELSE Deref(summary.StackId)]
    IN IF ~IsNil(details)
       THEN LET d == Deref(details)
            IN [s1 EXCEPT
                 !.Description = IF IsNil(d.Description) THEN ""
                                 ELSE Deref(d.Description),
                 !.CreatedAt = IF IsNil(d.CreationTime) THEN ZeroTime
                               ELSE Deref(d.CreationTime),
                 !.UpdatedAt = IF IsNil(d.LastUpdatedTime) THEN ZeroTime
                               ELSE Deref(d.LastUpdatedTime),
                 !.StackTags = Some(ConvertTags(d.Tags, 1, EmptyMap))]
       ELSE [s1 EXCEPT
                 !.CreatedAt = IF IsNil(summary.CreationTime)
                               THEN ZeroTime
                               ELSE Deref(summary.CreationTime),
                 !.UpdatedAt = IF IsNil(summary.LastUpdatedTime)
                               THEN ZeroTime
                               ELSE Deref(summary.LastUpdatedTime),
                 !.StackTags = Some(EmptyMap)]

\* Detector.convertToModel; now is the value time.Now().UTC() would return.
convertToModel(region, summary, details, reasons, now) ==
    LET s1 == [ZeroStack EXCEPT !.Region = region, !.Reasons = reasons,
                  !.StackName = IF IsNil(summary.StackName) THEN ""
                                ELSE Deref(summary.StackName),
                  !.StackID = IF IsNil(summary.StackId) THEN ""
                              ELSE Deref(summary.StackId)]
        s2 == IF ~IsNil(details)
              THEN LET d == Deref(details)
                   IN [s1 EXCEPT
                        !.Description = IF IsNil(d.Description) THEN ""
                                        ELSE Deref(d.Description),
                        !.CreatedAt = IF IsNil(d.CreationTime) THEN ZeroTime
                                      ELSE Deref(d.CreationTime),
                        !.UpdatedAt = IF IsNil(d.LastUpdatedTime) THEN ZeroTime
                                      ELSE Deref(d.LastUpdatedTime),
                        !.StackTags = Some(ConvertTags(d.Tags, 1, EmptyMap))]
              ELSE [s1 EXCEPT
                        !.CreatedAt = IF IsNil(summary.CreationTime)
                                      THEN ZeroTime
                                      ELSE Deref(summary.CreationTime),
                        !.UpdatedAt = IF IsNil(summary.LastUpdatedTime)
                                      THEN ZeroTime
                                      ELSE Deref(summary.LastUpdatedTime),
                        !.StackTags = Some(EmptyMap)]
        s3 == IF s2.CreatedAt = ZeroTime THEN [s2 EXCEPT !.CreatedAt = now]
              ELSE s2
    IN IF s3.UpdatedAt = ZeroTime THEN [s3 EXCEPT !.UpdatedAt = s3.CreatedAt]
       ELSE s3

\* ------------------------------------------------------------- data source
\* The data source is a mock client in the style of the repository's test
\* clients: a list of summaries, a resource table and a detail table keyed by
\* stack name, and a set of names whose calls fail.
Res(id, ty) == [LogicalResourceId |-> id, ResourceType |-> ty]

Summary(name, id, created, updated) ==
    [StackName |-> name, StackId |-> id,
     CreationTime |-> created, LastUpdatedTime |-> updated]

Tag(k, v) == [Key |-> k, Value |-> v]

Candidates ==
    { Summary(Some("good-stack"),
              Some("arn:aws:cloudformation:eu-west-1:123456789012:stack/good-stack/abc123"),
              Some(1), Some(2)),
      Summary(Some("nodetail-stack"), Nil, Some(3), Some(ZeroTime)),
      Summary(Some("failing-stack"), Some("arn:failing"), Nil, Nil),
      Summary(Some("plain-stack"), Some("arn:plain"), Some(1), Nil),
      Summary(Nil, Some("arn:noname"), Some(1), Nil),
      Summary(Some(""), Nil, Nil, Nil) }

MockResources ==
    [n \in {"good-stack", "nodetail-stack", "plain-stack", "undated-stack",
            ""} |->
        CASE n = "good-stack" ->
                 << Res(Some(SentinelLogicalId), Some(BucketResourceType)),
                    Res(Some("MyFunction"), Some("AWS::Lambda::Function")) >>
          [] n = "plain-stack" ->
                 << Res(Some("MyBucket"), Some(BucketResourceType)),
                    Res(Some(SentinelLogicalId), Some("AWS::Lambda::Function")) >>
          [] n = "nodetail-stack" ->
                 << Res(Nil, Some(BucketResourceType)),
                    Res(Some(SentinelLogicalId), Some(BucketResourceType)) >>
          [] OTHER ->
                 << Res(Some(SentinelLogicalId), Some(BucketResourceType)) >>]

MockDetails ==
    [n \in {"good-stack", "plain-stack", "undated-stack"} |->
        CASE n = "good-stack" ->
                 [Description |-> Some("My stack"), CreationTime |-> Some(4),
                  LastUpdatedTime |-> Nil,
                  Tags |-> << Tag(Some("Owner"), Some("team-a")),
                              Tag(Nil, Some("x")) >>]
          [] OTHER ->
                 [Description |-> Nil, CreationTime |-> Nil,
                  LastUpdatedTime |-> Some(5), Tags |-> <<>>]]

FailingResources == {"failing-stack"}

FailingDetails == {"nodetail-stack"}

ListErrors == {Nil, NewError("access denied to list stacks")}


Regions == {"us-east-1"}

\* Values time.Now() may return; never the zero time.
Clock == {9}

RECURSIVE SeqsUpTo(_, _)
SeqsUpTo(S, n) ==
    IF n = 0 THEN {<<>>}
    ELSE LET shorter == SeqsUpTo(S, n - 1)
         IN shorter \cup {Append(q, x) : q \in shorter, x \in S}

ListActiveStacks(stacks, listErr) ==
    IF ~IsNil(listErr) THEN [err |-> listErr, val |-> <<>>]
    ELSE [err |-> Nil, val |-> stacks]

GetStackResources(stackName) ==
    IF stackName \in FailingResources
    THEN [err |-> NewError("resource access failed for " \o stackName),
          val |-> <<>>]
    ELSE IF stackName \in DOMAIN MockResources
         THEN [err |-> Nil, val |-> MockResources[stackName]]
    ELSE [err |-> Nil, val |-> <<>>]

GetStackDetails(stackName) ==
    IF stackName \in FailingDetails
    THEN [err |-> NewError("stack details not accessible"), val |-> Nil]
    ELSE IF stackName \in DOMAIN MockDetails
         THEN [err |-> Nil, val |-> Some(MockDetails[stackName])]
    ELSE [err |-> Nil, val |-> Nil]

\* The context a scan runs under: whether it carries a deadline, and ctx.Err(),
\* nil until the context has ended.
Background == [deadline |-> FALSE, err |-> Nil]

\* context.WithTimeout(context.Background(), d)
WithTimeout == [deadline |-> TRUE, err |-> Nil]

\* RateLimitedClient, when r.limiter.Wait(ctx) returns an error: the API is
\* not called.
RateLimitError(cause) ==
    CustomError(ErrorTypeRateLimit, "rate limit context cancelled", cause)

\* The errors limiter.Wait(ctx) can return: the error of a context that has
\* ended, or, under a deadline that is still ahead, the limiter's refusal to
\* wait beyond it.
LimiterWaitErrors(c) ==
    IF ~IsNil(c.err) THEN {c.err}
    ELSE IF c.deadline
         THEN {NewError("rate: Wait(n=1) would exceed context deadline")}
    ELSE {}

\* handleError on the error of an API call that ended with its context.
handleContextError(err) ==
    IF ErrorIs(err, DeadlineExceeded) \/ ErrorIs(err, Canceled)
    THEN CustomError(ErrorTypeNetwork, "request timeout or cancelled", err)
    ELSE err

\* The errors a call of the client can return because of its context.  The
\* client hands the context to the API and returns the API's error as it
\* is; the detector never looks at the context itself.  An API that honours
\* the context fails with the context's error once the context has ended;
\* behind the rate limiter the call is refused by the limiter's wait, or,
\* let through, its context error comes back classified by handleError.
ContextFailures(c) ==
    (IF ~IsNil(c.err) THEN {c.err, handleContextError(c.err)} ELSE {})
    \cup {RateLimitError(cause) : cause \in LimiterWaitErrors(c)}

\* What a call of the client can return: the answer of the data source, as
\* an API that ignores the context always gives it, or one of the failures
\* its context allows.
ListActiveStacksOutcomes(stacks, listErr, c) ==
    {ListActiveStacks(stacks, listErr)} \cup
    {[err |-> e, val |-> <<>>] : e \in ContextFailures(c)}

GetStackResourcesOutcomes(stackName, c) ==
    {GetStackResources(stackName)} \cup
    {[err |-> e, val |-> <<>>] : e \in ContextFailures(c)}

GetStackDetailsOutcomes(stackName, c) ==
    {GetStackDetails(stackName)} \cup
    {[err |-> e, val |-> Nil] : e \in ContextFailures(c)}

\* ------------------------------------------------------------------ state
VARIABLES
    stacks,           \* the list the data source returns from ListActiveStacks
    listErr,          \* the error the data source returns from it, or nil
    listResult,       \* outcome of the ListActiveStacks call: none, ok, err
    ctx,              \* the context passed to DetectServerlessStacks
    region,           \* Detector.region
    maxWorkers,       \* Detector.maxWorkers
    rules,            \* Detector.ruleEngine.rules
    pc,               \* position of the goroutine running DetectServerlessStacks
    summaries,        \* the local summaries of DetectServerlessStacks
    numWorkers,       \* the local numWorkers of processStacksConcurrently
    started,          \* iterations done by the loop that starts the workers
    sent,             \* iterations done by the loop that sends the jobs
    jobs,             \* content of the jobs channel (indices into summaries)
    jobsClosed,       \* close(jobs) was executed
    results,          \* content of the results channel
    resultsClosed,    \* number of times close(results) was executed
    wg,               \* counter of the sync.WaitGroup
    worker,           \* per worker goroutine: pc and locals
    closer,           \* position of the goroutine that waits and closes results
    serverlessStacks, \* the list the collecting loop builds
    retStacks,        \* returned list
    retErr,           \* returned error, or nil
    trace,            \* per candidate: the steps taken on it, in order
    engine,           \* rule list of the rule engine under evaluation
    verdict,          \* result of the last Evaluate on engine, with its input
    addLog,           \* the rules passed to AddRule on engine, in call order
    retry,            \* RetryableClient: configuration and one call in progress
    tsv,              \* TSVFormatter: the list given to Format and its result
    cmd,              \* runCommand: position, output format, stdout, error
    scans             \* what earlier scans on this detector returned

pipelineVars == <<stacks, listErr, listResult, ctx, region, maxWorkers, rules, pc,
                  summaries, numWorkers, started, sent, jobs, jobsClosed,
                  results, resultsClosed, wg, worker, closer,
                  serverlessStacks, retStacks, retErr, trace>>

engineVars == <<engine, verdict>>

\* The components around the pipeline and the log of the engine's calls.
otherVars == <<addLog, retry, tsv, cmd, scans>>

vars == <<stacks, listErr, listResult, ctx, region, maxWorkers, rules, pc,
          summaries, numWorkers, started, sent, jobs, jobsClosed,
          results, resultsClosed, wg, worker, closer,
          serverlessStacks, retStacks, retErr, trace, engine, verdict, otherVars>>

\* numWorkers never exceeds the number of candidates.
Workers == 1..MaxStacks

PoolSizes == 1..MaxPool

IdleWorker == [pc |-> "off", job |-> 0, resources |-> <<>>,
               details |-> Nil, result |-> Nil]

\* A call of Evaluate run statement by statement: the slice the loop ranges
\* over and the position in it, the arguments resources and details (what
\* the caller's variables hold, the callee sharing them), the locals
\* isServerless and reasons, and the record of the calls that returned.
NoCall == [pc |-> "idle", ranged |-> <<>>, i |-> 0,
           resources |-> <<>>, details |-> Nil,
           isServerless |-> FALSE, reasons |-> <<>>,
           given |-> <<>>, log |-> <<>>]

\* resources and details are the inputs of the last call that was made in
\* one step, rules the rule list it ran on.
NoVerdict == [done |-> FALSE, rules |-> <<>>, resources |-> <<>>,
              details |-> Nil,
              isServerless |-> FALSE, reasons |-> <<>>, checked |-> 0,
              call |-> NoCall]

\* The components around the pipeline before they are used.
RetryIdle == [pc |-> "off", configured |-> 0, maxRetries |-> 0,
              attempt |-> 0, history |-> <<>>, sleeps |-> <<>>,
              cancelled |-> FALSE, lastErr |-> Nil]

TsvIdle == [stacks |-> <<>>, out |-> <<>>, done |-> FALSE,
            again |-> <<>>, redone |-> FALSE,
            iterations |-> <<>>, iterationsAgain |-> <<>>]

CmdIdle == [pc |-> "off", format |-> "json", assumeRole |-> Nil,
            accessed |-> FALSE, stdout |-> <<>>, err |-> Nil]

OtherIdle ==
    /\ addLog = <<>>
    /\ retry = RetryIdle
    /\ tsv = TsvIdle
    /\ cmd = CmdIdle
    /\ scans = <<>>

Event(op, failed) == [op |-> op, failed |-> failed]

\* NewDetector, before DetectServerlessStacks is called.  The pool size is
\* a positive value set on the detector; a pool size of the default 10 is
\* clamped to the number of candidates like any size above it.
InitUnder(contextSet) ==
    /\ stacks \in SeqsUpTo(Candidates, MaxStacks)
    /\ listErr \in ListErrors
    /\ listResult = "none"
    /\ ctx \in contextSet
    /\ region \in Regions
    /\ maxWorkers \in PoolSizes
    /\ rules = NewRuleEngine
    /\ pc = "list"
    /\ summaries = <<>>
    /\ numWorkers = 0
    /\ started = 0
    /\ sent = 0
    /\ jobs = <<>>
    /\ jobsClosed = FALSE
    /\ results = <<>>
    /\ resultsClosed = 0
    /\ wg = 0
    /\ worker = [w \in Workers |-> IdleWorker]
    /\ closer = "off"
    /\ serverlessStacks = <<>>
    /\ retStacks = <<>>
    /\ retErr = Nil
    /\ trace = <<>>
    /\ engine = NewRuleEngine
    /\ verdict = NoVerdict
    /\ OtherIdle

\* The scan is called with context.Background().
Init == InitUnder({Background})

\* ------------------------------------------------- DetectServerlessStacks
\* Variant without the clamp.
ClampWorkersNone(configured, n) == configured

\* numWorkers := d.maxWorkers, clamped down to len(summaries).
ClampWorkers(configured, n) == IF n < configured THEN n ELSE configured

\* The context ends while the scan runs: its deadline fires, or the cancel
\* function that came with it is called.
Cancel ==
    /\ IsNil(ctx.err)
    /\ pc # "done"
    /\ \E e \in (IF ctx.deadline THEN {DeadlineExceeded, Canceled}
                               ELSE {Canceled}) :
         ctx' = [ctx EXCEPT !.err = e]
    /\ UNCHANGED <<stacks, listErr, listResult, region, maxWorkers, rules, pc, summaries,
                   numWorkers, started, sent, jobs, jobsClosed, results,
                   resultsClosed, wg, worker, closer, serverlessStacks,
                   retStacks, retErr, trace, engine, verdict, otherVars>>

\* The error runDetection returns for the error of DetectServerlessStacks.
runDetectionError(err) ==
    IF ~IsNil(err) THEN Wrap("failed to detect serverless stacks", err)
    ELSE Nil

\* Variant that adds context to the listing error before returning it.
MainListWrapsError ==
    /\ pc = "list"
    /\ \E r \in ListActiveStacksOutcomes(stacks, listErr, ctx) :
          IF ~IsNil(r.err)
          THEN /\ retErr' = Wrap("failed to list stacks", r.err)
               /\ listResult' = "err"
               /\ retStacks' = <<>>
               /\ pc' = "done"
               /\ UNCHANGED <<summaries, numWorkers, trace>>
          ELSE /\ summaries' = r.val
               /\ listResult' = "ok"
               /\ numWorkers' = ClampWorkers(maxWorkers, Len(r.val))
               /\ trace' = [i \in 1..Len(r.val) |-> <<>>]
               /\ pc' = "start"
               /\ UNCHANGED <<retErr, retStacks>>
    /\ UNCHANGED <<stacks, listErr, ctx, region, maxWorkers, rules,
                   started, sent, jobs, jobsClosed, results, resultsClosed,
                   wg, worker, closer, serverlessStacks, engine, verdict, otherVars>>

\* Variant of the listing step that stores the clamped worker count in the
\* detector.
MainListClampsField ==
    /\ pc = "list"
    /\ \E r \in ListActiveStacksOutcomes(stacks, listErr, ctx) :
          IF ~IsNil(r.err)
          THEN /\ retErr' = r.err
               /\ listResult' = "err"
               /\ retStacks' = <<>>
               /\ pc' = "done"
               /\ UNCHANGED <<summaries, numWorkers, trace, maxWorkers>>
          ELSE /\ summaries' = r.val
               /\ listResult' = "ok"
               /\ numWorkers' = ClampWorkers(maxWorkers, Len(r.val))
               /\ maxWorkers' = ClampWorkers(maxWorkers, Len(r.val))
               /\ trace' = [i \in 1..Len(r.val) |-> <<>>]
               /\ pc' = "start"
               /\ UNCHANGED <<retErr, retStacks>>
    /\ UNCHANGED <<stacks, listErr, ctx, region, rules,
                   started, sent, jobs, jobsClosed, results, resultsClosed,
                   wg, worker, closer, serverlessStacks, engine, verdict,
                   otherVars>>

\* d.client.ListActiveStacks; on error return (nil, err), else enter
\* processStacksConcurrently: make the channels, compute numWorkers.
MainList ==
    /\ pc = "list"
    /\ \E r \in ListActiveStacksOutcomes(stacks, listErr, ctx) :
          IF ~IsNil(r.err)
          THEN /\ retErr' = r.err
               /\ listResult' = "err"
               /\ retStacks' = <<>>
               /\ pc' = "done"
               /\ UNCHANGED <<summaries, numWorkers, trace>>
          ELSE /\ summaries' = r.val
               /\ listResult' = "ok"
               /\ numWorkers' = ClampWorkers(maxWorkers, Len(r.val))
               /\ trace' = [i \in 1..Len(r.val) |-> <<>>]
               /\ pc' = "start"
               /\ UNCHANGED <<retErr, retStacks>>
    /\ UNCHANGED <<stacks, listErr, ctx, region, maxWorkers, rules,
                   started, sent, jobs, jobsClosed, results, resultsClosed,
                   wg, worker, closer, serverlessStacks, engine, verdict, otherVars>>

\* One iteration of the loop that starts the workers: wg.Add(1); go worker.
MainStartWorker ==
    /\ pc = "start"
    /\ IF started < numWorkers
       THEN /\ wg' = wg + 1
            /\ worker' = [worker EXCEPT ![started + 1].pc = "recv"]
            /\ started' = started + 1
            /\ pc' = pc
       ELSE /\ pc' = "send"
            /\ UNCHANGED <<wg, worker, started>>
    /\ UNCHANGED <<stacks, listErr, listResult, ctx, region, maxWorkers, rules,
                   summaries, numWorkers, sent, jobs, jobsClosed, results,
                   resultsClosed, closer, serverlessStacks, retStacks, retErr,
                   trace, engine, verdict, otherVars>>

\* One iteration of the loop that sends the jobs; the channel is buffered
\* with capacity len(summaries), a send on a full channel blocks.
MainSendJob ==
    /\ pc = "send"
    /\ sent < Len(summaries)
    /\ Len(jobs) < Len(summaries)
    /\ jobs' = Append(jobs, sent + 1)
    /\ sent' = sent + 1
    /\ UNCHANGED <<stacks, listErr, listResult, ctx, region, maxWorkers, rules, pc,
                   summaries, numWorkers, started, jobsClosed, results,
                   resultsClosed, wg, worker, closer, serverlessStacks,
                   retStacks, retErr, trace, engine, verdict, otherVars>>

\* Variant that forgets close(jobs).
MainCloseJobsForgotten ==
    /\ pc = "send"
    /\ sent = Len(summaries)
    /\ closer' = "wait"
    /\ pc' = "collect"
    /\ UNCHANGED <<stacks, listErr, listResult, ctx, region, maxWorkers, rules,
                   summaries, numWorkers, started, sent, jobs, jobsClosed,
                   results, resultsClosed, wg, worker, serverlessStacks,
                   retStacks, retErr, trace, engine, verdict, otherVars>>

\* close(jobs), then start the goroutine that waits for the workers.
MainCloseJobs ==
    /\ pc = "send"
    /\ sent = Len(summaries)
    /\ jobsClosed' = TRUE
    /\ closer' = "wait"
    /\ pc' = "collect"
    /\ UNCHANGED <<stacks, listErr, listResult, ctx, region, maxWorkers, rules,
                   summaries, numWorkers, started, sent, jobs, results,
                   resultsClosed, wg, worker, serverlessStacks, retStacks,
                   retErr, trace, engine, verdict, otherVars>>

\* Variant that closes the results channel without waiting for the workers.
CloserCloseNoWait ==
    /\ closer = "wait"
    /\ resultsClosed' = resultsClosed + 1
    /\ closer' = "exit"
    /\ UNCHANGED <<stacks, listErr, listResult, ctx, region, maxWorkers, rules, pc,
                   summaries, numWorkers, started, sent, jobs, jobsClosed,
                   results, wg, worker, serverlessStacks, retStacks, retErr,
                   trace, engine, verdict, otherVars>>

\* go func() { wg.Wait(); close(results) }()
CloserClose ==
    /\ closer = "wait"
    /\ wg = 0
    /\ resultsClosed' = resultsClosed + 1
    /\ closer' = "exit"
    /\ UNCHANGED <<stacks, listErr, listResult, ctx, region, maxWorkers, rules, pc,
                   summaries, numWorkers, started, sent, jobs, jobsClosed,
                   results, wg, worker, serverlessStacks, retStacks, retErr,
                   trace, engine, verdict, otherVars>>

\* Variant of the collecting loop that keeps only the first result.
MainCollectFirstOnly ==
    /\ pc = "collect"
    /\ IF results # <<>>
       THEN /\ results' = Tail(results)
            /\ serverlessStacks' =
                   IF ~IsNil(Head(results)) /\ serverlessStacks = <<>>
                   THEN Append(serverlessStacks, Deref(Head(results)))
                   ELSE serverlessStacks
            /\ UNCHANGED <<pc, retStacks>>
       ELSE /\ resultsClosed > 0
            /\ retStacks' = serverlessStacks
            /\ pc' = "done"
            /\ UNCHANGED <<results, serverlessStacks>>
    /\ UNCHANGED <<stacks, listErr, listResult, ctx, region, maxWorkers, rules,
                   summaries, numWorkers, started, sent, jobs, jobsClosed,
                   resultsClosed, wg, worker, closer, retErr, trace, engine,
                   verdict, otherVars>>

\* for result := range results: one receive, appending a non-nil result;
\* when the channel is closed and empty the loop ends and the list is
\* returned with a nil error.
MainCollect ==
    /\ pc = "collect"
    /\ IF results # <<>>
       THEN /\ results' = Tail(results)
            /\ serverlessStacks' =
                   IF ~IsNil(Head(results))
                   THEN Append(serverlessStacks, Deref(Head(results)))
                   ELSE serverlessStacks
            /\ UNCHANGED <<pc, retStacks>>
       ELSE /\ resultsClosed > 0
            /\ retStacks' = serverlessStacks
            /\ pc' = "done"
            /\ UNCHANGED <<results, serverlessStacks>>
    /\ UNCHANGED <<stacks, listErr, listResult, ctx, region, maxWorkers, rules,
                   summaries, numWorkers, started, sent, jobs, jobsClosed,
                   resultsClosed, wg, worker, closer, retErr, trace, engine,
                   verdict, otherVars>>

\* ------------------------------------------------------ worker goroutines
Log(i, op, failed) == [trace EXCEPT ![i] = Append(@, Event(op, failed))]

\* for summary := range jobs: receive a job and enter processStack, which
\* returns nil at once when the name is nil; when the channel is closed and
\* empty the loop ends and the deferred wg.Done() runs.
WorkerRecv(w) ==
    /\ worker[w].pc = "recv"
    /\ IF jobs # <<>>
       THEN /\ jobs' = Tail(jobs)
            /\ worker' = [worker EXCEPT ![w] =
                   [IdleWorker EXCEPT
                       !.job = Head(jobs),
                       !.pc = IF IsNil(summaries[Head(jobs)].StackName)
                              THEN "send" ELSE "resources"]]
            /\ UNCHANGED wg
       ELSE /\ jobsClosed
            /\ wg' = wg - 1
            /\ worker' = [worker EXCEPT ![w] = [IdleWorker EXCEPT !.pc = "exit"]]
            /\ UNCHANGED jobs
    /\ UNCHANGED <<stacks, listErr, listResult, ctx, region, maxWorkers, rules, pc,
                   summaries, numWorkers, started, sent, jobsClosed, results,
                   resultsClosed, closer, serverlessStacks, retStacks, retErr,
                   trace, engine, verdict, otherVars>>

\* The name processStack passes to the data source; the name of a summary
\* without one reads as the empty string.
JobName(w) ==
    IF IsNil(summaries[worker[w].job].StackName) THEN ""
    ELSE Deref(summaries[worker[w].job].StackName)

\* Variant that goes on with no resources after a failed resource fetch.
WorkerGetResourcesIgnoreError(w) ==
    /\ worker[w].pc = "resources"
    /\ \E r \in GetStackResourcesOutcomes(JobName(w), ctx) :
          /\ worker' = [worker EXCEPT ![w].resources = r.val,
                                      ![w].pc = "details"]
          /\ trace' = Log(worker[w].job, "GetStackResources", ~IsNil(r.err))
    /\ UNCHANGED <<stacks, listErr, listResult, ctx, region, maxWorkers, rules, pc,
                   summaries, numWorkers, started, sent, jobs, jobsClosed,
                   results, resultsClosed, wg, closer, serverlessStacks,
                   retStacks, retErr, engine, verdict, otherVars>>

\* Variant that reports a failed resource fetch as the error of the scan.
WorkerGetResourcesFatal(w) ==
    /\ worker[w].pc = "resources"
    /\ \E r \in GetStackResourcesOutcomes(JobName(w), ctx) :
          /\ IF ~IsNil(r.err)
             THEN /\ worker' = [worker EXCEPT ![w].pc = "send"]
                  /\ retErr' = r.err
             ELSE /\ worker' = [worker EXCEPT ![w].resources = r.val,
                                              ![w].pc = "details"]
                  /\ UNCHANGED retErr
          /\ trace' = Log(worker[w].job, "GetStackResources", ~IsNil(r.err))
    /\ UNCHANGED <<stacks, listErr, listResult, ctx, region, maxWorkers, rules, pc,
                   summaries, numWorkers, started, sent, jobs, jobsClosed,
                   results, resultsClosed, wg, closer, serverlessStacks,
                   retStacks, engine, verdict, otherVars>>

\* Variant that reports a stack whose resource fetch failed, from its
\* summary alone.
WorkerGetResourcesPartialRecord(w) ==
    /\ worker[w].pc = "resources"
    /\ \E r \in GetStackResourcesOutcomes(JobName(w), ctx) :
          /\ worker' =
                IF ~IsNil(r.err)
                THEN [worker EXCEPT
                        ![w].result = Some(convertToModel(region,
                                          summaries[worker[w].job], Nil, <<>>,
                                          CHOOSE t \in Clock : TRUE)),
                        ![w].pc = "send"]
                ELSE [worker EXCEPT ![w].resources = r.val,
                                    ![w].pc = "details"]
          /\ trace' = Log(worker[w].job, "GetStackResources", ~IsNil(r.err))
    /\ UNCHANGED <<stacks, listErr, listResult, ctx, region, maxWorkers, rules, pc,
                   summaries, numWorkers, started, sent, jobs, jobsClosed,
                   results, resultsClosed, wg, closer, serverlessStacks,
                   retStacks, retErr, engine, verdict, otherVars>>

\* resources, err := d.client.GetStackResources(ctx, stackName);
\* on error processStack returns nil.
WorkerGetResources(w) ==
    /\ worker[w].pc = "resources"
    /\ \E r \in GetStackResourcesOutcomes(JobName(w), ctx) :
          /\ worker' =
                IF ~IsNil(r.err)
                THEN [worker EXCEPT ![w].pc = "send"]
                ELSE [worker EXCEPT ![w].resources = r.val,
                                    ![w].pc = "details"]
          /\ trace' = Log(worker[w].job, "GetStackResources", ~IsNil(r.err))
    /\ UNCHANGED <<stacks, listErr, listResult, ctx, region, maxWorkers, rules, pc,
                   summaries, numWorkers, started, sent, jobs, jobsClosed,
                   results, resultsClosed, wg, closer, serverlessStacks,
                   retStacks, retErr, engine, verdict, otherVars>>

\* Variant that gives the stack up when the detail fetch fails.
WorkerGetDetailsSkipOnError(w) ==
    /\ worker[w].pc = "details"
    /\ \E r \in GetStackDetailsOutcomes(JobName(w), ctx) :
          /\ worker' =
                IF ~IsNil(r.err)
                THEN [worker EXCEPT ![w].pc = "send"]
                ELSE [worker EXCEPT ![w].details = r.val,
                                    ![w].pc = "evaluate"]
          /\ trace' = Log(worker[w].job, "GetStackDetails", ~IsNil(r.err))
    /\ UNCHANGED <<stacks, listErr, listResult, ctx, region, maxWorkers, rules, pc,
                   summaries, numWorkers, started, sent, jobs, jobsClosed,
                   results, resultsClosed, wg, closer, serverlessStacks,
                   retStacks, retErr, engine, verdict, otherVars>>

\* details, err := d.client.GetStackDetails(ctx, stackName);
\* on error details = nil and processing goes on.
WorkerGetDetails(w) ==
    /\ worker[w].pc = "details"
    /\ \E r \in GetStackDetailsOutcomes(JobName(w), ctx) :
          /\ worker' = [worker EXCEPT
                ![w].details = IF ~IsNil(r.err) THEN Nil ELSE r.val,
                ![w].pc = "evaluate"]
          /\ trace' = Log(worker[w].job, "GetStackDetails", ~IsNil(r.err))
    /\ UNCHANGED <<stacks, listErr, listResult, ctx, region, maxWorkers, rules, pc,
                   summaries, numWorkers, started, sent, jobs, jobsClosed,
                   results, resultsClosed, wg, closer, serverlessStacks,
                   retStacks, retErr, engine, verdict, otherVars>>

\* Variant that stamps every record with one fixed region.
WorkerEvaluateFixedRegion(w) ==
    /\ worker[w].pc = "evaluate"
    /\ LET v == Evaluate(rules, worker[w].resources, worker[w].details)
       IN \E now \in Clock :
            worker' = [worker EXCEPT
                ![w].result = IF v.isServerless
                              THEN Some(convertToModel("us-east-1",
                                        summaries[worker[w].job],
                                        worker[w].details, v.reasons, now))
                              ELSE Nil,
                ![w].pc = "send"]
    /\ trace' = Log(worker[w].job, "Evaluate", FALSE)
    /\ UNCHANGED <<stacks, listErr, listResult, ctx, region, maxWorkers, rules, pc,
                   summaries, numWorkers, started, sent, jobs, jobsClosed,
                   results, resultsClosed, wg, closer, serverlessStacks,
                   retStacks, retErr, engine, verdict, otherVars>>

\* Variant that reports the stack whatever the verdict is.
WorkerEvaluateReportAll(w) ==
    /\ worker[w].pc = "evaluate"
    /\ LET v == Evaluate(rules, worker[w].resources, worker[w].details)
       IN \E now \in Clock :
            worker' = [worker EXCEPT
                ![w].result = Some(convertToModel(region,
                                        summaries[worker[w].job],
                                        worker[w].details, v.reasons, now)),
                ![w].pc = "send"]
    /\ trace' = Log(worker[w].job, "Evaluate", FALSE)
    /\ UNCHANGED <<stacks, listErr, listResult, ctx, region, maxWorkers, rules, pc,
                   summaries, numWorkers, started, sent, jobs, jobsClosed,
                   results, resultsClosed, wg, closer, serverlessStacks,
                   retStacks, retErr, engine, verdict, otherVars>>

\* d.ruleEngine.Evaluate(resources, details); on a match the result is
\* convertToModel(summary, details, reasons), else nil.
WorkerEvaluate(w) ==
    /\ worker[w].pc = "evaluate"
    /\ LET v == Evaluate(rules, worker[w].resources, worker[w].details)
       IN \E now \in Clock :
            worker' = [worker EXCEPT
                ![w].result = IF v.isServerless
                              THEN Some(convertToModel(region,
                                        summaries[worker[w].job],
                                        worker[w].details, v.reasons, now))
                              ELSE Nil,
                ![w].pc = "send"]
    /\ trace' = Log(worker[w].job, "Evaluate", FALSE)
    /\ UNCHANGED <<stacks, listErr, listResult, ctx, region, maxWorkers, rules, pc,
                   summaries, numWorkers, started, sent, jobs, jobsClosed,
                   results, resultsClosed, wg, closer, serverlessStacks,
                   retStacks, retErr, engine, verdict, otherVars>>

\* Variant that sends a non-nil result twice.
WorkerSendTwice(w) ==
    /\ worker[w].pc = "send"
    /\ results' = IF IsNil(worker[w].result)
                  THEN Append(results, worker[w].result)
                  ELSE Append(Append(results, worker[w].result),
                              worker[w].result)
    /\ worker' = [worker EXCEPT ![w].pc = "recv"]
    /\ trace' = Log(worker[w].job, "send", FALSE)
    /\ UNCHANGED <<stacks, listErr, listResult, ctx, region, maxWorkers, rules, pc,
                   summaries, numWorkers, started, sent, jobs, jobsClosed,
                   resultsClosed, wg, closer, serverlessStacks, retStacks,
                   retErr, engine, verdict, otherVars>>

\* Variant in which the worker appends to the final list itself.
WorkerSendToSharedList(w) ==
    /\ worker[w].pc = "send"
    /\ Len(results) < Len(summaries)
    /\ IF IsNil(worker[w].result)
       THEN /\ results' = Append(results, worker[w].result)
            /\ UNCHANGED serverlessStacks
       ELSE /\ results' = Append(results, Nil)
            /\ serverlessStacks' =
                   Append(serverlessStacks, Deref(worker[w].result))
    /\ worker' = [worker EXCEPT ![w].pc = "recv"]
    /\ trace' = Log(worker[w].job, "send", FALSE)
    /\ UNCHANGED <<stacks, listErr, listResult, ctx, region, maxWorkers, rules, pc,
                   summaries, numWorkers, started, sent, jobs, jobsClosed,
                   resultsClosed, wg, closer, retStacks,
                   retErr, engine, verdict, otherVars>>

\* results <- result; the channel is buffered with capacity len(summaries).
WorkerSend(w) ==
    /\ worker[w].pc = "send"
    /\ Len(results) < Len(summaries)
    /\ results' = Append(results, worker[w].result)
    /\ worker' = [worker EXCEPT ![w].pc = "recv"]
    /\ trace' = Log(worker[w].job, "send", FALSE)
    /\ UNCHANGED <<stacks, listErr, listResult, ctx, region, maxWorkers, rules, pc,
                   summaries, numWorkers, started, sent, jobs, jobsClosed,
                   resultsClosed, wg, closer, serverlessStacks, retStacks,
                   retErr, engine, verdict, otherVars>>

\* The goroutine that runs DetectServerlessStacks.
MainStep ==
    \/ MainList
    \/ MainStartWorker
    \/ MainSendJob
    \/ MainCloseJobs
    \/ MainCollect

\* Worker goroutine w.
WorkerStep(w) ==
    \/ WorkerRecv(w)
    \/ WorkerGetResources(w)
    \/ WorkerGetDetails(w)
    \/ WorkerEvaluate(w)
    \/ WorkerSend(w)

Next ==
    \/ MainStep
    \/ CloserClose
    \/ \E w \in Workers : WorkerStep(w)

Spec == Init /\ [][Next]_vars

\* The Go scheduler runs every goroutine that can take a step, and every
\* data-source call returns.  The cancellation is an event of the
\* environment and is not forced.
Fairness ==
    /\ WF_vars(MainStep)
    /\ WF_vars(CloserClose)
    /\ \A w \in Workers : WF_vars(WorkerStep(w))

\* Termination does not depend on what a stack holds, only on the path its
\* processing takes: reported, given up after a failed fetch, or skipped.
FairCandidates ==
    { c \in Candidates :
        \/ IsNil(c.StackName)
        \/ Deref(c.StackName) \in {"good-stack", "failing-stack"} }

InitFair ==
    /\ Init
    /\ stacks \in SeqsUpTo(FairCandidates, MaxStacks)

FairSpec == InitFair /\ [][Next]_vars /\ Fairness

\* The same scan under a context with a timeout, which may end at any
\* moment.  The candidates have no failure of their own: one that matches,
\* one that does not.
CancelCandidates ==
    { c \in Candidates :
        /\ ~IsNil(c.StackName)
        /\ Deref(c.StackName) \in {"good-stack", "plain-stack"} }

InitCancel ==
    /\ InitUnder({WithTimeout})
    /\ stacks \in SeqsUpTo(CancelCandidates, MaxStacks)

NextCancel ==
    \/ Cancel
    \/ Next

CancelSpec == InitCancel /\ [][NextCancel]_vars

FairCancelSpec == CancelSpec /\ Fairness

\* The same scan by detectors constructed for different regions, over
\* candidates of which one carries an id that names a region of its own.
DetectorRegions == {"us-east-1", "eu-west-1"}

RegionCandidates ==
    { c \in Candidates :
        /\ ~IsNil(c.StackName)
        /\ Deref(c.StackName) \in {"good-stack", "nodetail-stack"} }

\* NewDetector for a region of regionSet, with a data source that lists
\* candidates of candidateSet, and maxWorkers then set to a value of poolSet.
InitScanWith(candidateSet, regionSet, poolSet) ==
    /\ stacks \in SeqsUpTo(candidateSet, MaxStacks)
    /\ listErr \in ListErrors
    /\ listResult = "none"
    /\ ctx = Background
    /\ region \in regionSet
    /\ maxWorkers \in poolSet
    /\ rules = NewRuleEngine
    /\ pc = "list"
    /\ summaries = <<>>
    /\ numWorkers = 0
    /\ started = 0
    /\ sent = 0
    /\ jobs = <<>>
    /\ jobsClosed = FALSE
    /\ results = <<>>
    /\ resultsClosed = 0
    /\ wg = 0
    /\ worker = [w \in Workers |-> IdleWorker]
    /\ closer = "off"
    /\ serverlessStacks = <<>>
    /\ retStacks = <<>>
    /\ retErr = Nil
    /\ trace = <<>>
    /\ engine = NewRuleEngine
    /\ verdict = NoVerdict
    /\ OtherIdle

InitScan(candidateSet, regionSet) ==
    InitScanWith(candidateSet, regionSet, PoolSizes)

InitRegion == InitScan(RegionCandidates, DetectorRegions)

RegionSpec == InitRegion /\ [][Next]_vars

\* ----------------------------------------------------- rule engine alone
\* The rule engine driven directly, as its unit tests drive it: rules are
\* registered with AddRule and Evaluate is called on some input.
RuleChoices ==
    { BucketRule,
      MockRule("AlwaysMatch", TRUE, "Always matches for testing"),
      MockRule("NeverMatch", FALSE, "never"),
      MockRule("EmptyReason", TRUE, "") }

ResourceInputs ==
    { <<>>,
      << Res(Some(SentinelLogicalId), Some(BucketResourceType)) >>,
      << Res(Some("RegularBucket"), Some(BucketResourceType)) >>,
      << Res(Some(SentinelLogicalId), Nil),
         Res(Nil, Some(BucketResourceType)) >>,
      << Res(Some(SentinelLogicalId), Some("AWS::Lambda::Function")),
         Res(Some("MyBucket"), Some(BucketResourceType)) >>,
      << Res(Some("ServerlessDeploymentBucket123"), Some(BucketResourceType)),
         Res(Some("serverlessdeploymentbucket"), Some(BucketResourceType)) >>,
      << Res(Some("MyFunction"), Some("AWS::Lambda::Function")),
         Res(Some(SentinelLogicalId), Some(BucketResourceType)) >> }

DetailInputs == {Nil, Some(MockDetails["good-stack"])}

InitEngine ==
    /\ Init
    /\ stacks = <<>>
    /\ IsNil(listErr)
    /\ maxWorkers = 1
    /\ pc = "list"

EngineAddRule ==
    /\ Len(engine) < MaxRules
    /\ \E rule \in RuleChoices :
         /\ engine' = AddRule(engine, rule)
         /\ addLog' = Append(addLog, rule)
    /\ UNCHANGED verdict
    /\ UNCHANGED <<retry, tsv, cmd, scans>>
    /\ UNCHANGED pipelineVars

\* engine.Evaluate(resources, details) on an input of the given sets.
EngineEvaluateOn(resourceSet, detailSet) ==
    /\ \E resources \in resourceSet, details \in detailSet :
         LET v == Evaluate(engine, resources, details)
         IN verdict' = [done |-> TRUE, rules |-> engine,
                        resources |-> resources, details |-> details,
                        isServerless |-> v.isServerless,
                        reasons |-> v.reasons, checked |-> v.checked,
                        call |-> verdict.call]
    /\ UNCHANGED engine
    /\ UNCHANGED otherVars
    /\ UNCHANGED pipelineVars

EngineEvaluate == EngineEvaluateOn(ResourceInputs, DetailInputs)

NextEngine ==
    \/ EngineAddRule
    \/ EngineEvaluate

EngineSpec == InitEngine /\ [][NextEngine]_vars

\* ------------------------------------------- Evaluate, statement by statement
\* The body of RuleEngine.Evaluate as the steps it takes, on an engine that
\* its caller also extends with AddRule between calls.  The caller is one
\* goroutine, so no rule is added while a call runs.
MaxCalls == 2

EvaluateResourceInputs ==
    { <<>>,
      << Res(Some(SentinelLogicalId), Some(BucketResourceType)) >>,
      << Res(Some(SentinelLogicalId), Nil),
         Res(Nil, Some(BucketResourceType)) >> }

\* Variant in which reasons is not a local of the call: it keeps what the
\* call before left in it.
EvaluateCallKeepsReasons ==
    /\ verdict.call.pc # "loop"
    /\ Len(verdict.call.log) < MaxCalls
    /\ \E resources \in EvaluateResourceInputs, details \in DetailInputs :
         verdict' = [verdict EXCEPT !.call =
             [@ EXCEPT !.pc = "loop", !.ranged = engine, !.i = 1,
                       !.resources = resources, !.details = details,
                       !.isServerless = FALSE,
                       !.given = [rules |-> engine, resources |-> resources,
                                  details |-> details]]]
    /\ UNCHANGED engine
    /\ UNCHANGED otherVars
    /\ UNCHANGED pipelineVars

\* The call and the statements before the loop: var reasons []string;
\* isServerless := false; the range expression re.rules is evaluated once.
\* given is what was passed, kept apart from the arguments the call shares
\* with its caller.
EvaluateCall ==
    /\ verdict.call.pc # "loop"
    /\ Len(verdict.call.log) < MaxCalls
    /\ \E resources \in EvaluateResourceInputs, details \in DetailInputs :
         verdict' = [verdict EXCEPT !.call =
             [@ EXCEPT !.pc = "loop", !.ranged = engine, !.i = 1,
                       !.resources = resources, !.details = details,
                       !.isServerless = FALSE, !.reasons = <<>>,
                       !.given = [rules |-> engine, resources |-> resources,
                                  details |-> details]]]
    /\ UNCHANGED engine
    /\ UNCHANGED otherVars
    /\ UNCHANGED pipelineVars

\* One iteration of the loop: rule.Check(resources, details); on a match
\* isServerless = true and reasons = append(reasons, reason).
EvaluateLoop ==
    /\ verdict.call.pc = "loop"
    /\ verdict.call.i <= Len(verdict.call.ranged)
    /\ LET c == Check(verdict.call.ranged[verdict.call.i],
                     verdict.call.resources, verdict.call.details)
       IN verdict' = [verdict EXCEPT !.call =
              IF c.matches
              THEN [@ EXCEPT !.i = @ + 1, !.isServerless = TRUE,
                             !.reasons = Append(@, c.reason)]
              ELSE [@ EXCEPT !.i = @ + 1]]
    /\ UNCHANGED engine
    /\ UNCHANGED otherVars
    /\ UNCHANGED pipelineVars

\* return isServerless, reasons.  The record of the call holds what was
\* passed, what is returned, and what the engine's rule list and the
\* caller's arguments hold at this moment.
EvaluateReturn ==
    /\ verdict.call.pc = "loop"
    /\ verdict.call.i > Len(verdict.call.ranged)
    /\ verdict' = [verdict EXCEPT !.call =
           [@ EXCEPT !.pc = "returned",
                     !.log = Append(@,
                        [given |-> verdict.call.given,
                         isServerless |-> verdict.call.isServerless,
                         reasons |-> verdict.call.reasons,
                         after |-> [rules |-> engine,
                                    resources |-> verdict.call.resources,
                                    details |-> verdict.call.details]])]]
    /\ UNCHANGED engine
    /\ UNCHANGED otherVars
    /\ UNCHANGED pipelineVars

NextEvaluate ==
    \/ verdict.call.pc # "loop" /\ EngineAddRule
    \/ EvaluateCall
    \/ EvaluateLoop
    \/ EvaluateReturn

EvaluateSpec == InitEngine /\ [][NextEvaluate]_vars

\* ------------------------------------------- rate-limited, retrying client
\* RetryableClient over RateLimitedClient over the CloudFormation API.  One
\* call (ListStacks, DescribeStacks and DescribeStackResources have the same
\* retry loop) is followed from its first attempt to its return.  retry.history
\* records every attempt: what the API answered or why it was not asked, the
\* type handleError gave the error, and whether the cancellation was observed.
MaxRetriesConfigured == 2

DefaultMaxRetries == 3

\* What the underlying API answers while the context is live: success, an
\* API error code, some other error, or (as the repository's mock clients
\* do) an error that is already classified.
ApiAnswers ==
    { "ok", "AccessDenied", "Throttling", "InvalidParameterValue: region",
      "InvalidParameterValue: other", "no such host", "internal failure",
      "classified: permission", "classified: rate limit",
      "classified: permission, timeout in message",
      "classified: rate limit, caused by AccessDenied",
      "classified: unknown, caused by deadline exceeded" }

ContextCanceled == "context canceled"

\* An error value, by what handleError looks at: the type of the outermost
\* classified Error in its chain ("" if there is none) and how many there
\* are, the code of the API error in its chain ("" if none) and whether
\* that error's message names the region, whether a context error is in
\* its chain, and whether its text holds "no such host", "connection
\* refused" or "timeout".
PlainError ==
    [custom |-> "", depth |-> 0, code |-> "", region |-> FALSE,
     context |-> FALSE, phrase |-> FALSE]

\* &Error{Type: errorType, Cause: cause}
Classified(errorType, cause) ==
    [cause EXCEPT !.custom = errorType, !.depth = cause.depth + 1]

\* The error value behind an answer of the API.
ApiError(answer) ==
    CASE answer = "ok" -> Nil
      [] answer \in {"AccessDenied", "Throttling"} ->
             Some([PlainError EXCEPT !.code = answer])
      [] answer = "InvalidParameterValue: region" ->
             Some([PlainError EXCEPT !.code = "InvalidParameterValue",
                                     !.region = TRUE])
      [] answer = "InvalidParameterValue: other" ->
             Some([PlainError EXCEPT !.code = "InvalidParameterValue"])
      [] answer = "no such host" -> Some([PlainError EXCEPT !.phrase = TRUE])
      [] answer = ContextCanceled -> Some([PlainError EXCEPT !.context = TRUE])
      [] answer = "classified: permission" ->
             Some(Classified(ErrorTypePermission, PlainError))
      [] answer = "classified: rate limit" ->
             Some(Classified(ErrorTypeRateLimit, PlainError))
      [] answer = "classified: permission, timeout in message" ->
             Some(Classified(ErrorTypePermission,
                             [PlainError EXCEPT !.phrase = TRUE]))
      [] answer = "classified: rate limit, caused by AccessDenied" ->
             Some(Classified(ErrorTypeRateLimit,
                             [PlainError EXCEPT !.code = "AccessDenied"]))
      [] answer = "classified: unknown, caused by deadline exceeded" ->
             Some(Classified(ErrorTypeUnknown,
                             [PlainError EXCEPT !.context = TRUE]))
      [] OTHER -> Some(PlainError)

\* RateLimitedClient.handleError, in the order of its tests: the API error
\* code, the context errors, the phrases of the text, an error that is
\* already classified, and the default.
handleError(err) ==
    IF IsNil(err) THEN Nil
    ELSE LET e == Deref(err)
         IN IF e.code \in {"AccessDenied", "UnauthorizedOperation"}
            THEN Some(Classified(ErrorTypePermission, e))
            ELSE IF e.code \in {"Throttling", "RequestLimitExceeded",
                                "TooManyRequestsException"}
            THEN Some(Classified(ErrorTypeRateLimit, e))
            ELSE IF e.code = "InvalidParameterValue" /\ e.region
            THEN Some(Classified(ErrorTypeInvalidRegion, e))
            ELSE IF e.context THEN Some(Classified(ErrorTypeNetwork, e))
            ELSE IF e.phrase THEN Some(Classified(ErrorTypeNetwork, e))
            ELSE IF e.custom # "" THEN err
            ELSE Some(Classified(ErrorTypeUnknown, e))

\* The type errors.As finds in a returned error, as a pointer.
ErrorTypeOf(err) == IF IsNil(err) THEN Nil ELSE Some(Deref(err).custom)

\* Variant that retries every error.
isRetryableErrorAlways(errorType) == TRUE

isRetryableError(errorType) ==
    errorType \in {ErrorTypeRateLimit, ErrorTypeNetwork}

\* Variant that keeps the configured value as it is.
NewRetryableClientAsGiven(maxRetries) == maxRetries

\* NewRetryableClient: the maxRetries the client works with.
NewRetryableClient(maxRetries) ==
    IF maxRetries <= 0 THEN DefaultMaxRetries ELSE maxRetries

Attempt(answer, given, returned, observedCancel) ==
    [answer |-> answer, given |-> given, returned |-> returned,
     err |-> ErrorTypeOf(returned), cancelled |-> observedCancel]

InitRetry ==
    /\ InitScan({}, Regions)
    /\ IsNil(listErr)
    /\ maxWorkers = 1

\* The client is constructed and a call is started: attempt := 0.
RetryStart ==
    /\ retry.pc = "off"
    /\ \E configured \in -1..MaxRetriesConfigured :
         retry' = [RetryIdle EXCEPT
                      !.pc = "wait",
                      !.configured = configured,
                      !.maxRetries = NewRetryableClient(configured)]
    /\ UNCHANGED <<addLog, tsv, cmd, scans>>
    /\ UNCHANGED engineVars
    /\ UNCHANGED pipelineVars

\* The context of the call is cancelled.
RetryCancel ==
    /\ retry.pc \in {"wait", "call", "sleep"}
    /\ ~retry.cancelled
    /\ retry' = [retry EXCEPT !.cancelled = TRUE]
    /\ UNCHANGED <<addLog, tsv, cmd, scans>>
    /\ UNCHANGED engineVars
    /\ UNCHANGED pipelineVars

\* What the retry loop does with the error of one attempt: return at nil;
\* return when errors.As finds a classified error in it and its type is not
\* retryable; otherwise, for a retryable type as for an error that holds no
\* classified error at all, sleep if attempts are left, else leave the loop
\* and return the last error.
AfterAttempt(r, answer, given, returned, observedCancel) ==
    LET err == ErrorTypeOf(returned)
        logged == [r EXCEPT
                     !.history = Append(@, Attempt(answer, given, returned,
                                                   observedCancel)),
                     !.lastErr = err]
    IN IF IsNil(returned) THEN [logged EXCEPT !.pc = "returned"]
       ELSE IF /\ Deref(returned).custom # ""
               /\ ~isRetryableError(Deref(returned).custom)
            THEN [logged EXCEPT !.pc = "returned"]
       ELSE IF r.attempt < r.maxRetries
            THEN [logged EXCEPT !.pc = "sleep"]
       ELSE [logged EXCEPT !.pc = "returned", !.attempt = r.attempt + 1]

\* RateLimitedClient: r.limiter.Wait(ctx) fails at once with a rate-limit
\* error when the context is cancelled, and the API is not called.
RetryWait ==
    /\ retry.pc = "wait"
    /\ retry.attempt <= retry.maxRetries
    /\ retry' = IF retry.cancelled
                THEN AfterAttempt(retry, "not called", Nil,
                         Some(Classified(ErrorTypeRateLimit,
                                  [PlainError EXCEPT !.context = TRUE])),
                         TRUE)
                ELSE [retry EXCEPT !.pc = "call"]
    /\ UNCHANGED <<addLog, tsv, cmd, scans>>
    /\ UNCHANGED engineVars
    /\ UNCHANGED pipelineVars

\* The call of the underlying API and handleError on its error; the API
\* answers with the context's error when the context is cancelled.
RetryInvoke ==
    /\ retry.pc = "call"
    /\ \E answer \in (IF retry.cancelled THEN {ContextCanceled}
                       ELSE ApiAnswers) :
         retry' = AfterAttempt(retry, answer, ApiError(answer),
                               handleError(ApiError(answer)),
                               retry.cancelled)
    /\ UNCHANGED <<addLog, tsv, cmd, scans>>
    /\ UNCHANGED engineVars
    /\ UNCHANGED pipelineVars

\* Variant whose wait grows by one second per attempt.
RetrySleepLinear ==
    /\ retry.pc = "sleep"
    /\ retry' = [retry EXCEPT
                    !.sleeps = Append(@, [seconds |-> retry.attempt + 1,
                                          cancelled |-> retry.cancelled]),
                    !.attempt = retry.attempt + 1,
                    !.pc = "wait"]
    /\ UNCHANGED <<addLog, tsv, cmd, scans>>
    /\ UNCHANGED engineVars
    /\ UNCHANGED pipelineVars

\* time.Sleep(1<<attempt seconds), which does not watch the context; then
\* attempt++.
RetrySleep ==
    /\ retry.pc = "sleep"
    /\ retry' = [retry EXCEPT
                    !.sleeps = Append(@, [seconds |-> 2 ^ retry.attempt,
                                          cancelled |-> retry.cancelled]),
                    !.attempt = retry.attempt + 1,
                    !.pc = "wait"]
    /\ UNCHANGED <<addLog, tsv, cmd, scans>>
    /\ UNCHANGED engineVars
    /\ UNCHANGED pipelineVars

NextRetry ==
    \/ RetryStart
    \/ RetryCancel
    \/ RetryWait
    \/ RetryInvoke
    \/ RetrySleep

RetrySpec == InitRetry /\ [][NextRetry]_vars

\* ------------------------------------------- TSV formatter
\* Texts are sequences of character codes, so that escaping, joining and
\* sorting are computed character by character as strings.* does.
MaxRows == 2

TAB == 9

LF == 10

CR == 13

BACKSLASH == 92

SEMICOLON == 59

EQUALS == 61

RECURSIVE ReplaceAll(_, _, _)
\* strings.ReplaceAll(s, old, new) for a one-character old.
ReplaceAll(s, old, new) ==
    IF s = <<>> THEN <<>>
    ELSE (IF Head(s) = old THEN new ELSE <<Head(s)>>)
         \o ReplaceAll(Tail(s), old, new)

RECURSIVE Join(_, _)
\* strings.Join(elems, sep).
Join(elems, sep) ==
    IF elems = <<>> THEN <<>>
    ELSE IF Len(elems) = 1 THEN elems[1]
    ELSE elems[1] \o sep \o Join(Tail(elems), sep)

RECURSIVE StringLess(_, _)
\* a < b for Go strings: byte-wise lexicographic order.
StringLess(a, b) ==
    IF b = <<>> THEN FALSE
    ELSE IF a = <<>> THEN TRUE
    ELSE IF Head(a) # Head(b) THEN Head(a) < Head(b)
    ELSE StringLess(Tail(a), Tail(b))

RECURSIVE InsertSorted(_, _)
InsertSorted(key, sorted) ==
    IF sorted = <<>> THEN <<key>>
    ELSE IF StringLess(key, Head(sorted)) THEN <<key>> \o sorted
    ELSE <<Head(sorted)>> \o InsertSorted(key, Tail(sorted))

RECURSIVE SortStrings(_)
\* sort.Strings(keys).
SortStrings(keys) ==
    IF keys = <<>> THEN <<>>
    ELSE InsertSorted(Head(keys), SortStrings(Tail(keys)))

\* Variant that escapes tabs only.
escapeValueTabsOnly(value) == ReplaceAll(value, TAB, <<BACKSLASH, 116>>)

escapeValue(value) ==
    LET tabs == ReplaceAll(value, TAB, <<BACKSLASH, 116>>)
        newlines == ReplaceAll(tabs, LF, <<BACKSLASH, 110>>)
    IN ReplaceAll(newlines, CR, <<BACKSLASH, 114>>)

Digit(d) == 48 + d

\* time.Format(time.RFC3339) of the instant t seconds after the epoch (UTC,
\* t below one minute): 1970-01-01T00:00:ssZ; the zero time gives "".
formatTime(t) ==
    IF t = ZeroTime THEN <<>>
    ELSE <<49, 57, 55, 48, 45, 48, 49, 45, 48, 49, 84, 48, 48, 58, 48, 48, 58>>
         \o <<Digit(t \div 10), Digit(t % 10), 90>>

\* Variant that keeps the order of the map iteration.
formatTagsUnsorted(tags, iteration) ==
    IF DOMAIN tags = {} THEN <<>>
    ELSE Join([i \in DOMAIN iteration |->
                  escapeValue(iteration[i]) \o <<EQUALS>>
                  \o escapeValue(tags[iteration[i]])],
              <<SEMICOLON>>)

\* formatTags: iteration is the order in which `range tags` yields the keys.
formatTags(tags, iteration) ==
    IF DOMAIN tags = {} THEN <<>>
    ELSE LET keys == SortStrings(iteration)
         IN Join([i \in DOMAIN keys |->
                     escapeValue(keys[i]) \o <<EQUALS>>
                     \o escapeValue(tags[keys[i]])],
                 <<SEMICOLON>>)

formatReasons(reasons) ==
    IF reasons = <<>> THEN <<>>
    ELSE Join([i \in DOMAIN reasons |-> escapeValue(reasons[i])],
              <<SEMICOLON>>)

TsvHeader ==
    << <<83, 116, 97, 99, 107, 78, 97, 109, 101>>,
       <<83, 116, 97, 99, 107, 73, 68>>,
       <<82, 101, 103, 105, 111, 110>>,
       <<68, 101, 115, 99, 114, 105, 112, 116, 105, 111, 110>>,
       <<67, 114, 101, 97, 116, 101, 100, 65, 116>>,
       <<85, 112, 100, 97, 116, 101, 100, 65, 116>>,
       <<84, 97, 103, 115>>,
       <<82, 101, 97, 115, 111, 110, 115>> >>

TsvRow(stack, iteration) ==
    << escapeValue(stack.StackName),
       escapeValue(stack.StackID),
       escapeValue(stack.Region),
       escapeValue(stack.Description),
       formatTime(stack.CreatedAt),
       formatTime(stack.UpdatedAt),
       formatTags(stack.StackTags, iteration),
       formatReasons(stack.Reasons) >>

RECURSIVE TsvRows(_, _)
TsvRows(stackList, iterations) ==
    IF stackList = <<>> THEN <<>>
    ELSE Join(TsvRow(Head(stackList), Head(iterations)), <<TAB>>) \o <<LF>>
         \o TsvRows(Tail(stackList), Tail(iterations))

\* TSVFormatter.Format: header line, one line per stack, and the trailing
\* newline removed.  iterations[i] is the map iteration order of row i.
TSVFormat(stackList, iterations) ==
    LET output == Join(TsvHeader, <<TAB>>) \o <<LF>>
                  \o TsvRows(stackList, iterations)
    IN IF output[Len(output)] = LF
       THEN SubSeq(output, 1, Len(output) - 1)
       ELSE output

\* Texts put into the results: plain, and with a tab, a newline, a carriage
\* return with newline, and a backslash.
TsvTexts ==
    { <<97>>, <<97, TAB, 98>>, <<LF, 97>>, <<97, CR, LF>>, <<BACKSLASH, 116>> }

\* A result whose texts all carry t, with n tags and n reasons.
TsvStack(t, n) ==
    [ StackName |-> t,
      StackID |-> t \o <<47>> \o t,
      Region |-> t,
      Description |-> IF n = 0 THEN <<>> ELSE t,
      CreatedAt |-> IF n = 0 THEN ZeroTime ELSE 1,
      UpdatedAt |-> IF n = 0 THEN ZeroTime ELSE 12,
      StackTags |-> IF n = 0 THEN EmptyMap
                    ELSE IF n = 1 THEN MapPut(EmptyMap, t, t)
                    ELSE MapPut(MapPut(EmptyMap, t, t), <<66>> \o t, <<>>),
      Reasons |-> IF n = 0 THEN <<>>
                  ELSE IF n = 1 THEN <<t>>
                  ELSE <<t, <<98>> \o t>> ]

TsvStacks == { TsvStack(t, n) : t \in TsvTexts, n \in 0..2 }

\* The orders in which a map of these keys can be iterated.
IterationOrders(tags) ==
    { order \in SeqsUpTo(DOMAIN tags, Cardinality(DOMAIN tags)) :
        /\ Len(order) = Cardinality(DOMAIN tags)
        /\ \A k \in DOMAIN tags : \E i \in DOMAIN order : order[i] = k }

InitTsv ==
    /\ InitScan({}, Regions)
    /\ IsNil(listErr)
    /\ maxWorkers = 1

\* One more result in the list handed to the formatter.
TsvAddStack ==
    /\ ~tsv.done
    /\ Len(tsv.stacks) < MaxRows
    /\ \E stack \in TsvStacks :
         tsv' = [tsv EXCEPT !.stacks = Append(@, stack)]
    /\ UNCHANGED <<addLog, retry, cmd, scans>>
    /\ UNCHANGED engineVars
    /\ UNCHANGED pipelineVars

TsvIterations(stackList) ==
    { its \in [DOMAIN stackList -> UNION { IterationOrders(stackList[i].StackTags)
                                            : i \in DOMAIN stackList }] :
        \A i \in DOMAIN stackList :
            its[i] \in IterationOrders(stackList[i].StackTags) }

\* Format(stacks), the maps being iterated in some order.
TsvFormat ==
    /\ ~tsv.done
    /\ \E iterations \in TsvIterations(tsv.stacks) :
         tsv' = [tsv EXCEPT !.out = TSVFormat(tsv.stacks, iterations),
                            !.iterations = iterations,
                            !.done = TRUE]
    /\ UNCHANGED <<addLog, retry, cmd, scans>>
    /\ UNCHANGED engineVars
    /\ UNCHANGED pipelineVars

\* A second Format of the same list, the maps iterated in some order again.
TsvFormatAgain ==
    /\ tsv.done
    /\ ~tsv.redone
    /\ \E iterations \in TsvIterations(tsv.stacks) :
         tsv' = [tsv EXCEPT !.again = TSVFormat(tsv.stacks, iterations),
                            !.iterationsAgain = iterations,
                            !.redone = TRUE]
    /\ UNCHANGED <<addLog, retry, cmd, scans>>
    /\ UNCHANGED engineVars
    /\ UNCHANGED pipelineVars

NextTsv ==
    \/ TsvAddStack
    \/ TsvFormat
    \/ TsvFormatAgain

TsvSpec == InitTsv /\ [][NextTsv]_vars

\* ------------------------------------------- scans on one detector
\* DetectServerlessStacks called again on the same detector with the same
\* data source: the locals of the call are new, the detector's fields and
\* the data are what the scan before left.
MaxScans == 2

ScanRecord ==
    [stacks |-> retStacks, err |-> retErr, numWorkers |-> numWorkers,
     maxWorkers |-> maxWorkers, region |-> region, rules |-> rules]

\* The scan has returned and DetectServerlessStacks is called again.
MainRescan ==
    /\ pc = "done"
    /\ Len(scans) + 1 < MaxScans
    /\ scans' = Append(scans, ScanRecord)
    /\ listResult' = "none"
    /\ pc' = "list"
    /\ summaries' = <<>>
    /\ numWorkers' = 0
    /\ started' = 0
    /\ sent' = 0
    /\ jobs' = <<>>
    /\ jobsClosed' = FALSE
    /\ results' = <<>>
    /\ resultsClosed' = 0
    /\ wg' = 0
    /\ worker' = [w \in Workers |-> IdleWorker]
    /\ closer' = "off"
    /\ serverlessStacks' = <<>>
    /\ retStacks' = <<>>
    /\ retErr' = Nil
    /\ trace' = <<>>
    /\ UNCHANGED <<stacks, listErr, ctx, region, maxWorkers, rules,
                   engine, verdict, addLog, retry, tsv, cmd>>

RescanCandidates == RegionCandidates \cup CancelCandidates

InitRescan == InitScan(RescanCandidates, Regions)

NextRescan ==
    \/ Next
    \/ MainRescan

RescanSpec == InitRescan /\ [][NextRescan]_vars

\* ------------------------------------------- details without timestamps
\* Candidates that match: one whose detail carries a creation time, one
\* whose detail carries an update time and no creation time while the
\* summary has both times, and one for which no detail exists.
TimestampCandidates ==
    { Summary(Some("undated-stack"), Some("arn:undated"), Some(6), Some(7)),
      Summary(Some(""), Nil, Nil, Nil) }
    \cup { c \in Candidates : c.StackName = Some("good-stack") }

InitTimestamp == InitScan(TimestampCandidates, Regions)

TimestampSpec == InitTimestamp /\ [][Next]_vars

\* ------------------------------------------- any value of maxWorkers
\* Detector.maxWorkers is a plain int field that nothing validates: the
\* scan run with the field set to any value, positive or not.
AnyPoolSizes == -1..MaxPool

AnyPoolCandidates == RegionCandidates

InitAnyPool == InitScanWith(AnyPoolCandidates, Regions, AnyPoolSizes)

AnyPoolSpec == InitAnyPool /\ [][Next]_vars

\* ------------------------------------------- one stack after another
\* processStack as a function: what it returns for one summary when the
\* data source answers by stack name and the clock reads now.
processStack(summary, now) ==
    IF IsNil(summary.StackName) THEN Nil
    ELSE LET stackName == Deref(summary.StackName)
             resources == GetStackResources(stackName)
             fetched == GetStackDetails(stackName)
             details == IF ~IsNil(fetched.err) THEN Nil ELSE fetched.val
         IN IF ~IsNil(resources.err) THEN Nil
            ELSE LET v == Evaluate(rules, resources.val, details)
                 IN IF v.isServerless
                    THEN Some(convertToModel(region, summary, details,
                                             v.reasons, now))
                    ELSE Nil

RECURSIVE SequentialScan(_, _)
\* The candidates processed in one loop, in the order of the list, the
\* non-nil results appended to the output.
SequentialScan(summaryList, now) ==
    IF summaryList = <<>> THEN <<>>
    ELSE LET result == processStack(Head(summaryList), now)
         IN (IF IsNil(result) THEN <<>> ELSE <<Deref(result)>>)
            \o SequentialScan(Tail(summaryList), now)

\* ------------------------------------------- the command
\* runCommand: validation of the configuration, createAWSClient with its
\* validation listing, runDetection around DetectServerlessStacks, and the
\* one fmt.Print of the formatted result.  cmd.stdout is what was printed.
OutputFormats == {"json", "tsv", "xml", "JSON"}

\* cfg.AssumeRole: nil without --assume-role, else the role with the session
\* name and the duration given.
AssumeRoleInputs ==
    {Nil} \cup
    { Some([RoleARN |-> "arn:aws:iam::123456789012:role/scan",
            SessionName |-> name, Duration |-> seconds]) :
        name \in {"", "scan-session"}, seconds \in {899, 900, 43200, 43201} }

\* AssumeRoleConfig.Validate
AssumeRoleValidate(arc) ==
    IF arc.RoleARN = ""
    THEN NewError("role ARN cannot be empty when using AssumeRole")
    ELSE IF arc.Duration < 900 \/ arc.Duration > 43200
    THEN NewError("session duration must be between 900 and 43200 seconds, got "
                  \o ToString(arc.Duration))
    ELSE IF arc.SessionName = "" THEN NewError("session name cannot be empty")
    ELSE Nil

CmdRegions == {"us-east-1", ""}

CmdCandidates == RegionCandidates

\* The error of aws.CreateClient: that of config.LoadDefaultConfig with its
\* context in front.
CreateErrors ==
    {Nil, Wrap("failed to load AWS configuration",
               NewError("failed to get shared config profile"))}

\* Variant that compares the format without regard to case.
ValidateOutputFormatAnyCase(format) == format \in {"json", "tsv", "JSON", "TSV"}

ValidateOutputFormat(format) == format \in {"json", "tsv"}

FormatterFactory(format) ==
    IF format \in {"json", "tsv"}
    THEN [val |-> Some(format), err |-> Nil]
    ELSE [val |-> Nil,
          err |-> NewError("unsupported output format: " \o format
                           \o " (supported formats: json, tsv)")]

\* The text a formatter makes of a list, kept as the format and the list.
Formatted(format, stackList) == [format |-> format, stacks |-> stackList]

formatOutput(stackList, format) ==
    LET formatter == FormatterFactory(format)
    IN IF ~IsNil(formatter.err)
       THEN [val |-> Formatted("", <<>>),
             err |-> Wrap("failed to create formatter", formatter.err)]
       ELSE [val |-> Formatted(Deref(formatter.val), stackList), err |-> Nil]

\* runDetection, given what DetectServerlessStacks returned.
runDetection(stackList, err, format) ==
    IF ~IsNil(err)
    THEN [val |-> Formatted("", <<>>), err |-> runDetectionError(err)]
    ELSE formatOutput(stackList, format)

\* The error of createAWSClient, given the errors of aws.CreateClient and
\* of the validation listing.
createAWSClient(createErr, validationErr) ==
    IF ~IsNil(createErr) THEN Wrap("failed to create AWS client", createErr)
    ELSE IF ~IsNil(validationErr)
         THEN Wrap("AWS credentials validation failed", validationErr)
    ELSE Nil

InitCmd == InitScan(CmdCandidates, CmdRegions)

\* The error of the checks runCommand makes before it creates the client:
\* the output format, the region, the AssumeRole configuration.
validateConfig(format, regionName, assumeRole) ==
    IF ~ValidateOutputFormat(format)
    THEN NewError("invalid output format '" \o format
                  \o "'. Supported formats: json, tsv")
    ELSE IF regionName = "" THEN NewError("region is required")
    ELSE IF ~IsNil(assumeRole) /\ ~IsNil(AssumeRoleValidate(Deref(assumeRole)))
    THEN Wrap("AssumeRole configuration invalid",
              AssumeRoleValidate(Deref(assumeRole)))
    ELSE Nil

\* runCommand up to the creation of the client: the configuration is built
\* from the flags and checked.
CmdValidate ==
    /\ cmd.pc = "off"
    /\ \E format \in OutputFormats, assumeRole \in AssumeRoleInputs :
         LET err == validateConfig(format, region, assumeRole)
             cfg == [cmd EXCEPT !.format = format, !.assumeRole = assumeRole]
         IN cmd' = IF ~IsNil(err)
                   THEN [cfg EXCEPT !.pc = "returned", !.err = err]
                   ELSE [cfg EXCEPT !.pc = "client"]
    /\ UNCHANGED <<addLog, retry, tsv, scans>>
    /\ UNCHANGED engineVars
    /\ UNCHANGED pipelineVars

CmdCreateClient ==
    /\ cmd.pc = "client"
    /\ \E createErr \in CreateErrors, validationErr \in ListErrors :
         LET err == createAWSClient(createErr, validationErr)
         IN cmd' = IF ~IsNil(err)
                   THEN [cmd EXCEPT
                           !.pc = "returned",
                           !.accessed = TRUE,
                           !.err = Wrap("failed to create AWS client", err)]
                   ELSE [cmd EXCEPT !.pc = "detect", !.accessed = TRUE]
    /\ UNCHANGED <<addLog, retry, tsv, scans>>
    /\ UNCHANGED engineVars
    /\ UNCHANGED pipelineVars

\* DetectServerlessStacks running inside runDetection.
CmdDetect ==
    /\ cmd.pc = "detect"
    /\ Next

\* Variant that prints what runDetection returned before looking at its
\* error.
CmdReturnPrintsFirst ==
    /\ cmd.pc = "detect"
    /\ pc = "done"
    /\ LET r == runDetection(retStacks, retErr, cmd.format)
       IN cmd' = [cmd EXCEPT
                    !.pc = "returned",
                    !.stdout = Append(@, r.val),
                    !.err = IF ~IsNil(r.err)
                            THEN Wrap("detection failed", r.err)
                            ELSE Nil]
    /\ UNCHANGED <<addLog, retry, tsv, scans>>
    /\ UNCHANGED engineVars
    /\ UNCHANGED pipelineVars

\* The end of runCommand: the error of runDetection is wrapped and returned,
\* or the result is printed.
CmdReturn ==
    /\ cmd.pc = "detect"
    /\ pc = "done"
    /\ LET r == runDetection(retStacks, retErr, cmd.format)
       IN cmd' = IF ~IsNil(r.err)
                 THEN [cmd EXCEPT !.pc = "returned",
                                  !.err = Wrap("detection failed", r.err)]
                 ELSE [cmd EXCEPT !.pc = "returned",
                                  !.stdout = Append(@, r.val)]
    /\ UNCHANGED <<addLog, retry, tsv, scans>>
    /\ UNCHANGED engineVars
    /\ UNCHANGED pipelineVars

NextCmd ==
    \/ CmdValidate
    \/ CmdCreateClient
    \/ CmdDetect
    \/ CmdReturn

CmdSpec == InitCmd /\ [][NextCmd]_vars

\* ------------------------------------------- stacks without any resource
\* A scan over candidates of which one has an empty resource list, and the
\* rule engine driven directly on the same kind of input.  The scan and the
\* engine under test share no state, so the engine is driven once the scan
\* has returned.
EmptyResourceCandidates ==
    { Summary(Some("empty-stack"),
              Some("arn:aws:cloudformation:us-east-1:123456789012:stack/empty-stack/abc123"),
              Nil, Nil) }
    \cup { c \in Candidates : c.StackName = Some("good-stack") }

InitEmptyResource == InitScan(EmptyResourceCandidates, Regions)

\* What the two candidates hold: nothing, and the signature bucket.
EmptyResourceInputs == { <<>>, MockResources["good-stack"] }

NextEmptyResource ==
    \/ Next
    \/ pc = "done" /\ EngineAddRule
    \/ pc = "done" /\ EngineEvaluateOn(EmptyResourceInputs, {Nil})

EmptyResourceSpec == InitEmptyResource /\ [][NextEmptyResource]_vars

\* ---------------------------------------------------------------- helpers
\* What the claims say about a scan is stated on the candidates, the tables
\* of the data source and the record of the calls, not on the operators of
\* the model.
Indices == DOMAIN summaries

Named(i) == ~IsNil(summaries[i].StackName)

NameOf(i) == Deref(summaries[i].StackName)

IdOrEmpty(i) ==
    IF IsNil(summaries[i].StackId) THEN "" ELSE Deref(summaries[i].StackId)

\* The signature of the deployment tool: one entry with both the id and the type.
HasSignature(resources) ==
    \E k \in DOMAIN resources :
        /\ resources[k].LogicalResourceId = Some(SentinelLogicalId)
        /\ resources[k].ResourceType = Some(BucketResourceType)

TableResources(name) ==
    IF name \in DOMAIN MockResources THEN MockResources[name] ELSE <<>>

Happened(i, op, failed) ==
    \E k \in DOMAIN trace[i] : trace[i][k] = Event(op, failed)

Called(i, op) == \E k \in DOMAIN trace[i] : trace[i][k].op = op

Ops(i) == [k \in DOMAIN trace[i] |-> trace[i][k].op]

IsPrefix(p, q) ==
    /\ Len(p) <= Len(q)
    /\ \A k \in DOMAIN p : p[k] = q[k]

\* Entries of the returned list that carry the name and id of candidate i.
EntriesOf(i) ==
    { k \in DOMAIN retStacks :
        /\ retStacks[k].StackName = (IF Named(i) THEN NameOf(i) ELSE "")
        /\ retStacks[k].StackID = IdOrEmpty(i) }

\* Candidates equal to candidate i that satisfy P.
Twins(i, P(_)) == { j \in Indices : summaries[j] = summaries[i] /\ P(j) }

Finished == pc = "done"

\* ------------------------------------------------------------------ claims
FetchFails(i) == Named(i) /\ NameOf(i) \in FailingResources

ShouldBeReported(i) ==
    /\ Named(i)
    /\ ~FetchFails(i)
    /\ HasSignature(TableResources(NameOf(i)))

FetchedAndMatching(i) ==
    /\ Named(i)
    /\ Happened(i, "GetStackResources", FALSE)
    /\ HasSignature(TableResources(NameOf(i)))

\* C1: DetectServerlessStacks returns an error if and only if the
\* ListActiveStacks call returned one; failed GetStackResources and
\* GetStackDetails calls never make it return an error.
C1_ErrorIffListingFails ==
    Finished => /\ ~IsNil(retErr) <=> listResult = "err"
                /\ listResult = "err" <=> ~IsNil(listErr)

C1_Witness ==
    /\ Finished
    /\ IsNil(retErr)
    /\ \E i \in Indices : Happened(i, "GetStackResources", TRUE)
    /\ \E i \in Indices : Happened(i, "GetStackDetails", TRUE)

\* C2: when the resource fetch fails for a subset F of the candidates, the
\* scan returns no error, every candidate outside F is processed, and the
\* output holds exactly the matching candidates outside F, with no entry for
\* a candidate of F.
C2_PartialFailureIsolation ==
    (Finished /\ IsNil(listErr)) =>
        /\ IsNil(retErr)
        /\ \A i \in Indices :
             /\ FetchFails(i) => EntriesOf(i) = {}
             /\ (Named(i) /\ ~FetchFails(i)) => Called(i, "Evaluate")
             /\ Cardinality(EntriesOf(i)) =
                    IF ShouldBeReported(i)
                    THEN Cardinality(Twins(i, ShouldBeReported))
                    ELSE 0
        /\ Len(retStacks) = Cardinality({i \in Indices : ShouldBeReported(i)})

C2_Witness ==
    /\ Finished
    /\ \E i, j \in Indices :
         /\ FetchFails(i)
         /\ Happened(i, "GetStackResources", TRUE)
         /\ ShouldBeReported(j)
         /\ EntriesOf(j) # {}

\* C3: no duplicates and no drops: whatever the interleaving of the workers
\* and the pool size, every candidate that has a name, whose resources were
\* fetched and match, is in the returned list exactly once, and the list
\* holds nothing else.
C3_ExactlyOnce ==
    (Finished /\ listResult = "ok") =>
        /\ \A i \in Indices :
             Cardinality(EntriesOf(i)) =
                 IF FetchedAndMatching(i)
                 THEN Cardinality(Twins(i, FetchedAndMatching))
                 ELSE 0
        /\ Len(retStacks) = Cardinality({i \in Indices : FetchedAndMatching(i)})

\* Two workers ran and the results came back in the opposite order.
C3_Witness ==
    /\ Finished
    /\ numWorkers = 2
    /\ Len(retStacks) = 2
    /\ NameOf(1) # NameOf(2)
    /\ retStacks[1].StackName = NameOf(2)
    /\ retStacks[2].StackName = NameOf(1)

\* Every goroutine of the scan has ended and both channels are closed and
\* empty.
AllQuiet ==
    /\ \A w \in Workers :
         worker[w].pc = (IF w <= numWorkers THEN "exit" ELSE "off")
    /\ closer = "exit"
    /\ wg = 0
    /\ jobsClosed
    /\ jobs = <<>>
    /\ resultsClosed = 1
    /\ results = <<>>

\* C4: for every number of candidates (also fewer than the pool size) and
\* every pool size of at least 1, when every data-source call returns, the
\* scan eventually returns, with every worker ended, the results channel
\* closed and drained and no goroutine left blocked on a channel.
C4_Termination == <>(Finished /\ (listResult = "ok" => AllQuiet))

C4_Witness ==
    /\ Finished
    /\ listResult = "ok"
    /\ Len(summaries) >= 1
    /\ Len(summaries) < maxWorkers
    /\ AllQuiet

NoFetch(i) == ~Called(i, "GetStackResources") /\ ~Called(i, "GetStackDetails")

AbsentOrEmptyName(i) == ~Named(i) \/ NameOf(i) = ""

\* C5: for a candidate whose name is absent or empty no GetStackResources
\* or GetStackDetails call is made and nothing is emitted.
C5_AbsentOrEmptyNameSkipped ==
    \A i \in Indices :
        AbsentOrEmptyName(i) =>
            /\ NoFetch(i)
            /\ Finished => EntriesOf(i) = {}

\* C6: a stack whose resources were fetched and match but whose detail fetch
\* failed is still reported: name and id of the candidate, the region of the
\* detector, empty description, an empty tag map that is not nil, reasons
\* present; and no error is returned.
C6_DegradedDetail ==
    (Finished /\ listResult = "ok") =>
        \A i \in Indices :
            (FetchedAndMatching(i) /\ Happened(i, "GetStackDetails", TRUE)) =>
                /\ IsNil(retErr)
                /\ EntriesOf(i) # {}
                /\ \A k \in EntriesOf(i) :
                     /\ retStacks[k].StackName = NameOf(i)
                     /\ retStacks[k].StackID = IdOrEmpty(i)
                     /\ retStacks[k].Region = region
                     /\ retStacks[k].Description = ""
                     /\ retStacks[k].StackTags = Some(EmptyMap)
                     /\ retStacks[k].Reasons # <<>>

C6_Witness ==
    /\ Finished
    /\ \E i \in Indices :
         /\ FetchedAndMatching(i)
         /\ Happened(i, "GetStackDetails", TRUE)
         /\ EntriesOf(i) # {}

\* C7: on one stack the resource fetch comes before the detail fetch, that
\* before the rule evaluation, that before the hand-off of the result; after
\* a failed resource fetch neither the detail fetch nor the evaluation is
\* made.  Nothing orders the steps taken on different stacks.
C7_PerStackOrder ==
    \A i \in DOMAIN trace :
        /\ \/ IsPrefix(Ops(i), <<"GetStackResources", "GetStackDetails",
                                 "Evaluate", "send">>)
           \/ Ops(i) = <<"GetStackResources", "send">>
           \/ Ops(i) = <<"send">>
        /\ Happened(i, "GetStackResources", TRUE) =>
              ~Called(i, "GetStackDetails") /\ ~Called(i, "Evaluate")
        /\ Ops(i) = <<"GetStackResources", "send">> =>
              Happened(i, "GetStackResources", TRUE)
        /\ Ops(i) = <<"send">> => ~Named(i)

\* The second stack is past its evaluation while the first, taken earlier,
\* still waits for its details; elsewhere a resource fetch has failed.
C7_Witness ==
    /\ Len(summaries) = 2
    /\ Ops(1) = <<"GetStackResources">>
    /\ Ops(2) = <<"GetStackResources", "GetStackDetails", "Evaluate", "send">>

\* C8: when the context is cancelled the scan still returns; it returns an
\* error exactly when the listing call failed, and otherwise a nil error
\* with a list, possibly empty or partial, that holds exactly the candidates
\* whose resources were fetched before the cancellation and match.
C8_Cancellation ==
    /\ <>Finished
    /\ [](Finished =>
            /\ ~IsNil(retErr) <=> listResult = "err"
            /\ listResult = "err" => retStacks = <<>>
            /\ listResult = "ok" =>
                 /\ \A k \in DOMAIN retStacks :
                      \E i \in Indices :
                          k \in EntriesOf(i) /\ FetchedAndMatching(i)
                 /\ \A i \in Indices :
                      FetchedAndMatching(i) =>
                          Cardinality(EntriesOf(i)) =
                              Cardinality(Twins(i, FetchedAndMatching))
                 /\ \A i \in Indices :
                      Named(i) => Called(i, "GetStackResources"))

\* Cancelled after the listing: one matching stack was fetched in time and
\* is reported, another one was not and is missing.
C8_Witness ==
    /\ Finished
    /\ ~IsNil(ctx.err)
    /\ IsNil(retErr)
    /\ Len(retStacks) = 1
    /\ \E i \in Indices :
         /\ ShouldBeReported(i)
         /\ Happened(i, "GetStackResources", TRUE)

\* What a rule answers, stated on the rule and the resources.
RuleMatches(rule, resources) ==
    IF rule.kind = "bucket" THEN HasSignature(resources) ELSE rule.matches

RuleReason(rule) ==
    IF rule.kind = "bucket" THEN BucketReason ELSE rule.reason

ExpectedReasons(ruleList, resources) ==
    LET Matching(rule) == RuleMatches(rule, resources)
        selected == SelectSeq(ruleList, Matching)
    IN [k \in DOMAIN selected |-> RuleReason(selected[k])]

\* C9: for every registered rule set and every input, Evaluate returns
\* isMatch = true if and only if the returned reason list is not empty, also
\* when a matching rule returns an empty reason string.
C9_MatchIffReasons ==
    verdict.done => (verdict.isServerless <=> verdict.reasons # <<>>)

C9_Witness ==
    /\ verdict.done
    /\ verdict.isServerless
    /\ verdict.reasons = <<"">>

\* C10: Evaluate runs every registered rule, also after a match, and returns
\* one reason per matching rule in registration order; the verdict is true
\* if at least one rule matched.
C10_AllRulesInOrder ==
    verdict.done =>
        /\ verdict.checked = Len(verdict.rules)
        /\ verdict.reasons = ExpectedReasons(verdict.rules, verdict.resources)
        /\ verdict.isServerless <=>
               \E k \in DOMAIN verdict.rules :
                   RuleMatches(verdict.rules[k], verdict.resources)

C10_Witness ==
    /\ verdict.done
    /\ Len(verdict.rules) = 3
    /\ ~RuleMatches(verdict.rules[2], verdict.resources)
    /\ verdict.reasons = <<BucketReason, "Always matches for testing">>

\* C11: the signature-bucket rule matches a resource collection if and only
\* if one single entry has both the logical id 'ServerlessDeploymentBucket'
\* and the type 'AWS::S3::Bucket', both present; the id and the type in
\* different entries, a longer or differently cased id, or an absent id or
\* type give no match, and the evaluation still completes.
C11_SignatureBucketRule ==
    verdict.done =>
        /\ verdict.rules[1] = BucketRule
        /\ verdict.checked = Len(verdict.rules)
        /\ (\E k \in DOMAIN verdict.reasons : verdict.reasons[k] = BucketReason)
               <=> \E k \in DOMAIN verdict.resources :
                      /\ verdict.resources[k].LogicalResourceId
                             = Some("ServerlessDeploymentBucket")
                      /\ verdict.resources[k].ResourceType
                             = Some("AWS::S3::Bucket")

\* The id in one entry and the type in another: evaluated, no match.
C11_Witness ==
    /\ verdict.done
    /\ verdict.rules = <<BucketRule>>
    /\ Len(verdict.resources) = 2
    /\ verdict.resources[1].LogicalResourceId = Some(SentinelLogicalId)
    /\ verdict.resources[2].ResourceType = Some(BucketResourceType)
    /\ ~verdict.isServerless
    /\ verdict.reasons = <<>>

\* Worker goroutines that were started, and those that are inside
\* processStack, in a data-source call or in the evaluation.
StartedWorkers == { w \in Workers : worker[w].pc # "off" }

BusyWorkers ==
    { w \in Workers : worker[w].pc \in {"resources", "details", "evaluate"} }

PoolLimit ==
    IF maxWorkers < Len(summaries) THEN maxWorkers ELSE Len(summaries)

\* C12: a scan over N candidates with configured pool size W starts exactly
\* min(W, N) workers, none for an empty list, and never has more than
\* min(W, N) stacks in processing at the same time.
C12_WorkerClamp ==
    listResult = "ok" =>
        /\ Cardinality(StartedWorkers) = started
        /\ started <= PoolLimit
        /\ pc \in {"send", "collect", "done"} => started = PoolLimit
        /\ Cardinality(BusyWorkers) <= PoolLimit

\* One candidate under a larger pool: a single worker runs and is busy.
C12_Witness ==
    /\ listResult = "ok"
    /\ Len(summaries) = 1
    /\ maxWorkers > 1
    /\ pc = "collect"
    /\ started = 1
    /\ Cardinality(BusyWorkers) = 1

\* The detail the scan obtains for candidate i: the entry of the detail table
\* unless the call fails or the table has none.
DetailOf(i) ==
    IF NameOf(i) \in FailingDetails \/ NameOf(i) \notin DOMAIN MockDetails
    THEN Nil
    ELSE Some(MockDetails[NameOf(i)])

\* The update time of the source the record is built from: the detail when
\* there is one, else the candidate.
UpdateTimeOf(i) ==
    IF IsNil(DetailOf(i)) THEN summaries[i].LastUpdatedTime
    ELSE Deref(DetailOf(i)).LastUpdatedTime

NoTime(t) == IsNil(t) \/ Deref(t) = ZeroTime

\* Every stack the collecting loop has taken, returned or not yet.
Output == IF Finished THEN retStacks ELSE serverlessStacks

OutputOf(i) ==
    { k \in DOMAIN Output :
        /\ Named(i)
        /\ Output[k].StackName = NameOf(i)
        /\ Output[k].StackID = IdOrEmpty(i) }

\* C13: every stack in the output has a non-zero CreatedAt and a non-zero
\* UpdatedAt whatever timestamps the candidate and the detail carry or lack;
\* when no update time is available UpdatedAt equals the stack's CreatedAt.
C13_TimestampsNeverZero ==
    /\ \A k \in DOMAIN Output :
          /\ Output[k].CreatedAt # ZeroTime
          /\ Output[k].UpdatedAt # ZeroTime
    /\ \A i \in Indices : \A k \in OutputOf(i) :
          NoTime(UpdateTimeOf(i)) => Output[k].UpdatedAt = Output[k].CreatedAt

\* A reported stack without any timestamp: both are the time of the scan.
C13_Witness ==
    /\ Finished
    /\ \E i \in Indices : \E k \in OutputOf(i) :
          /\ IsNil(summaries[i].CreationTime)
          /\ IsNil(summaries[i].LastUpdatedTime)
          /\ IsNil(DetailOf(i))
          /\ retStacks[k].CreatedAt \in Clock
          /\ retStacks[k].UpdatedAt = retStacks[k].CreatedAt

\* C14: every stack in the output carries a non-empty reason list, which is
\* the list of the reasons of the rules that match the stack's resources, in
\* the order the rules were registered; a stack that no rule matches never
\* appears in the output.
C14_ReasonsFromEvaluate ==
    /\ \A k \in DOMAIN Output : Output[k].Reasons # <<>>
    /\ \A i \in Indices :
          Named(i) =>
            /\ \A k \in OutputOf(i) :
                  Output[k].Reasons =
                      ExpectedReasons(rules, TableResources(NameOf(i)))
            /\ (\A r \in DOMAIN rules :
                    ~RuleMatches(rules[r], TableResources(NameOf(i))))
                  => OutputOf(i) = {}

\* A scan that evaluated a matching and a non-matching stack: only the
\* first is returned, with the reason of the bucket rule.
C14_Witness ==
    /\ Finished
    /\ Len(retStacks) = 1
    /\ retStacks[1].Reasons = <<BucketReason>>
    /\ \E i \in Indices :
          /\ Happened(i, "Evaluate", FALSE)
          /\ ~HasSignature(TableResources(NameOf(i)))

\* C15: the region of every stack in the output is the region the detector
\* was constructed with, whatever the candidate, its resources or its detail
\* hold, also when the stack id names another region.
C15_RegionFromDetector ==
    \A k \in DOMAIN Output : Output[k].Region = region

\* A detector for us-east-1 reports a stack whose id names eu-west-1.
C15_Witness ==
    /\ Finished
    /\ region = "us-east-1"
    /\ \E k \in DOMAIN retStacks :
          /\ retStacks[k].StackID =
                "arn:aws:cloudformation:eu-west-1:123456789012:stack/good-stack/abc123"
          /\ retStacks[k].Region = "us-east-1"

\* C16: a step of a worker leaves the final list, the returned values, the
\* data source, the detector's configuration and the rule engine unchanged,
\* and all it does to the results channel is to send one value on it; the
\* final list changes only in a step of the collecting loop, by one appended
\* stack taken from the channel, and one worker's locals change only in
\* that worker's own steps once it runs.
C16_ConcurrencyDiscipline ==
    [][ /\ (\E w \in Workers : WorkerStep(w)) =>
              /\ UNCHANGED <<stacks, listErr, region, maxWorkers, rules,
                             engine, summaries, serverlessStacks, retStacks,
                             retErr, pc, closer, resultsClosed>>
              /\ results' # results =>
                     \E w \in Workers :
                         /\ worker[w].pc = "send"
                         /\ results' = Append(results, worker[w].result)
        /\ serverlessStacks' # serverlessStacks =>
              /\ pc = "collect"
              /\ MainCollect
              /\ results # <<>>
              /\ serverlessStacks' =
                     Append(serverlessStacks, Deref(Head(results)))
        /\ \A w \in Workers :
              (worker[w].pc # "off" /\ worker'[w] # worker[w]) =>
                  /\ WorkerStep(w)
                  /\ \A u \in Workers \ {w} : worker'[u] = worker[u]
      ]_vars

\* Two workers hold a finished record each while the collecting loop has
\* not taken anything yet.
C16_Witness ==
    /\ pc = "collect"
    /\ serverlessStacks = <<>>
    /\ \E w, u \in Workers :
          /\ w # u
          /\ worker[w].pc = "send" /\ ~IsNil(worker[w].result)
          /\ worker[u].pc = "send" /\ ~IsNil(worker[u].result)

\* Nothing of the pipeline has run: no worker started, no job sent, no
\* per-stack call made.
NothingStarted ==
    /\ started = 0
    /\ \A w \in Workers : worker[w] = IdleWorker
    /\ sent = 0 /\ jobs = <<>> /\ results = <<>>
    /\ closer = "off"
    /\ trace = <<>>

\* C17 as stated: when the listing call fails DetectServerlessStacks
\* returns a nil list and the listing error wrapped with added context, the
\* listing error being its cause, before any worker is started or any
\* per-stack call is made.
C17_ListingErrorWrapped ==
    listResult = "err" =>
        /\ Finished
        /\ retStacks = <<>>
        /\ Len(retErr) > 1
        /\ Unwrap(retErr) = listErr
        /\ NothingStarted

\* C17, amended: when the listing call fails DetectServerlessStacks returns
\* a nil list and the listing error itself, with no context added, before
\* any worker is started or any per-stack call is made; the context is
\* added by the caller runDetection, whose error has the listing error as
\* its cause.
C17_ListingErrorVerbatim ==
    listResult = "err" =>
        /\ Finished
        /\ retStacks = <<>>
        /\ retErr = listErr
        /\ Len(retErr) = 1
        /\ Unwrap(runDetectionError(retErr)) = listErr
        /\ NothingStarted

C17_Witness ==
    /\ Finished
    /\ listResult = "err"
    /\ stacks # <<>>
    /\ retErr = NewError("access denied to list stacks")
    /\ ErrorText(runDetectionError(retErr)) =
           "failed to detect serverless stacks: access denied to list stacks"

\* C18: the number of stacks in the output never exceeds the number of
\* candidates the listing call returned, neither in the list being built
\* nor in the list returned.
C18_OutputAtMostInput ==
    /\ Len(serverlessStacks) <= Len(summaries)
    /\ Len(retStacks) <= Len(summaries)
    /\ Finished => Len(retStacks) <= Len(stacks)

\* The bound is reached: every candidate of the scan is reported.
C18_Witness ==
    /\ Finished
    /\ Len(summaries) = MaxStacks
    /\ Len(retStacks) = Len(summaries)

EmptyListed == listResult = "ok" /\ summaries = <<>>

\* C19: when the listing call returns an empty list no worker is started and
\* no per-stack call is made, the scan returns without waiting for anything,
\* and what it returns is an empty list and a nil error.
C19_EmptyCandidateList ==
    /\ [](EmptyListed =>
            /\ started = 0
            /\ numWorkers = 0
            /\ \A w \in Workers : worker[w] = IdleWorker
            /\ wg = 0
            /\ sent = 0 /\ jobs = <<>> /\ results = <<>>
            /\ trace = <<>>
            /\ serverlessStacks = <<>>
            /\ retStacks = <<>>
            /\ IsNil(retErr))
    /\ (EmptyListed ~> (Finished /\ resultsClosed = 1))

C19_Witness ==
    /\ EmptyListed
    /\ Finished
    /\ maxWorkers > 1
    /\ started = 0
    /\ closer = "exit"
    /\ retStacks = <<>>
    /\ IsNil(retErr)

\* The resource fetch for candidate i succeeded and returned an empty list.
FetchedNothing(i) ==
    /\ Named(i)
    /\ Happened(i, "GetStackResources", FALSE)
    /\ TableResources(NameOf(i)) = <<>>

ScanSkipsEmptyStacks ==
    \A i \in Indices : FetchedNothing(i) => OutputOf(i) = {}

\* C20 as stated: Evaluate returns no-match with no reasons for an empty
\* resource collection, and a scan never reports a stack whose resource
\* fetch returned an empty list.
C20_EmptyNeverMatches ==
    /\ ScanSkipsEmptyStacks
    /\ (verdict.done /\ verdict.resources = <<>>) =>
          /\ ~verdict.isServerless
          /\ verdict.reasons = <<>>

\* C20, amended: with the built-in rule alone, which is what every scan
\* uses, Evaluate returns no-match with no reasons for an empty resource
\* collection and a scan never reports a stack whose resource fetch
\* returned an empty list; with further rules registered Evaluate returns
\* a match for an empty collection exactly when one of them matches
\* whatever the resources are.
C20_EmptyNeverMatchesBuiltIn ==
    /\ rules = <<BucketRule>>
    /\ ScanSkipsEmptyStacks
    /\ (verdict.done /\ verdict.resources = <<>>) =>
          /\ verdict.rules = <<BucketRule>> =>
                (~verdict.isServerless /\ verdict.reasons = <<>>)
          /\ verdict.isServerless <=>
                \E k \in DOMAIN verdict.rules :
                    /\ verdict.rules[k].kind = "mock"
                    /\ verdict.rules[k].matches

\* A scan evaluated a stack without resources and did not report it, and
\* the built-in engine answered no-match for the empty collection.
C20_Witness ==
    /\ Finished
    /\ \E i \in Indices :
          /\ FetchedNothing(i)
          /\ Happened(i, "Evaluate", FALSE)
          /\ OutputOf(i) = {}
    /\ verdict.done
    /\ verdict.rules = <<BucketRule>>
    /\ verdict.resources = <<>>
    /\ ~verdict.isServerless

CallLog == verdict.call.log

SameCall(a, b) == a.given = b.given

\* C21: two calls of Evaluate on the same engine with the same resources
\* and detail return the same verdict and the same reasons, which are those
\* of the rules that match the resources, in order; and a call changes
\* neither its arguments nor the engine's rule list, at no statement of it
\* and when it has returned.
C21_EvaluateIdempotentPure ==
    /\ [](\A j, k \in DOMAIN CallLog :
            SameCall(CallLog[j], CallLog[k]) =>
                /\ CallLog[j].isServerless = CallLog[k].isServerless
                /\ CallLog[j].reasons = CallLog[k].reasons)
    /\ [](\A k \in DOMAIN CallLog :
            /\ CallLog[k].reasons =
                   ExpectedReasons(CallLog[k].given.rules,
                                   CallLog[k].given.resources)
            /\ CallLog[k].isServerless <=>
                   \E n \in DOMAIN CallLog[k].given.rules :
                       RuleMatches(CallLog[k].given.rules[n],
                                   CallLog[k].given.resources)
            /\ CallLog[k].after = CallLog[k].given)
    /\ [][verdict.call.pc = "loop" =>
            /\ engine' = engine
            /\ verdict'.call.resources = verdict.call.resources
            /\ verdict'.call.details = verdict.call.details]_vars

\* A matching input was evaluated twice on the same engine of three rules,
\* two of which match.
C21_Witness ==
    /\ Len(CallLog) = 2
    /\ SameCall(CallLog[1], CallLog[2])
    /\ Len(CallLog[1].given.rules) = MaxRules
    /\ CallLog[2].isServerless
    /\ Len(CallLog[2].reasons) > 1

\* C22: AddRule appends the given rule at the end of the rule list: the
\* list is always the built-in rule followed by the rules passed to AddRule
\* in call order, so each call adds exactly one rule, leaves the rules
\* before it and their order alone, and keeps a rule whose name is already
\* registered.
C22_AddRuleAppends ==
    /\ [](engine = NewRuleEngine \o addLog)
    /\ [][addLog' # addLog =>
            /\ Len(engine') = Len(engine) + 1
            /\ SubSeq(engine', 1, Len(engine)) = engine
            /\ engine'[Len(engine')] = addLog'[Len(addLog')]]_vars

\* The built-in rule was registered a second time: both are kept.
C22_Witness ==
    /\ Len(engine) = 3
    /\ engine[1].name = engine[3].name
    /\ engine[2].name # engine[1].name
    /\ Len(addLog) = 2

RetryReturned == retry.pc = "returned"

Retryable(err) ==
    ~IsNil(err) /\ Deref(err) \in {"RATE_LIMIT", "NETWORK_ERROR"}

\* C23: a call through RetryableClient makes at most maxRetries+1 attempts,
\* a configured maxRetries <= 0 counting as 3; every attempt but the last
\* ended with a rate-limit or network error; the call returns right after
\* the first success (nil error) and right after the first error of another
\* type, and otherwise returns the error of attempt maxRetries+1.
C23_RetryPolicy ==
    retry.pc # "off" =>
        LET h == retry.history
            limit == IF retry.configured <= 0 THEN 3 ELSE retry.configured
        IN /\ retry.maxRetries = limit
           /\ Len(h) <= limit + 1
           /\ \A k \in 1..(Len(h) - 1) : Retryable(h[k].err)
           /\ ~RetryReturned => \A k \in DOMAIN h : Retryable(h[k].err)
           /\ RetryReturned =>
                 /\ h # <<>>
                 /\ retry.lastErr = h[Len(h)].err
                 /\ h[Len(h)].answer = "ok" <=> IsNil(retry.lastErr)
                 /\ Retryable(retry.lastErr) => Len(h) = limit + 1

\* Two rate-limit errors, then a permission error: returned at the third
\* attempt although a fourth was allowed.
C23_Witness ==
    /\ RetryReturned
    /\ retry.maxRetries = 3
    /\ Len(retry.history) = 3
    /\ retry.history[1].answer = "Throttling"
    /\ retry.history[2].answer = "no such host"
    /\ retry.lastErr = Some("PERMISSION_DENIED")

\* C27: once an attempt has observed the cancellation (the limiter wait
\* failed on the cancelled context, or the underlying call returned the
\* context's error), the call returns: that attempt is the last one and no
\* backoff sleep is taken under the cancelled context.
C27_PromptAfterCancel ==
    /\ \A k \in DOMAIN retry.history :
          retry.history[k].cancelled =>
              k = Len(retry.history) /\ RetryReturned
    /\ \A k \in DOMAIN retry.sleeps : ~retry.sleeps[k].cancelled

RECURSIVE SplitOn(_, _)
\* The pieces of s between the occurrences of the character c.
SplitOn(s, c) ==
    IF \A i \in DOMAIN s : s[i] # c THEN <<s>>
    ELSE LET first == CHOOSE i \in DOMAIN s :
                          s[i] = c /\ \A j \in 1..(i - 1) : s[j] # c
         IN <<SubSeq(s, 1, first - 1)>>
            \o SplitOn(SubSeq(s, first + 1, Len(s)), c)

Contains(s, c) == \E i \in DOMAIN s : s[i] = c

TsvLines == SplitOn(tsv.out, 10)

\* C24: the TSV rendering of N results has exactly N+1 lines, the first
\* being the fixed header, every line has exactly 8 tab-separated cells, and
\* no carriage return occurs in it, whatever tabs, newlines and carriage
\* returns the texts of the results contain.
C24_TsvStructure ==
    tsv.done =>
        /\ Len(TsvLines) = Len(tsv.stacks) + 1
        /\ SplitOn(TsvLines[1], 9) = TsvHeader
        /\ \A i \in DOMAIN TsvLines : Len(SplitOn(TsvLines[i], 9)) = 8
        /\ ~Contains(tsv.out, 13)

\* Two results rendered, whose names, ids, regions, descriptions, tags and
\* reasons carry a tab, a newline and a carriage return.
C24_Witness ==
    /\ tsv.done
    /\ Len(tsv.stacks) = 2
    /\ Contains(tsv.stacks[1].StackName, 9)
    /\ Len(tsv.stacks[1].Reasons) = 2
    /\ Contains(tsv.stacks[1].Reasons[2], 9)
    /\ Contains(tsv.stacks[2].Description, 13)
    /\ Contains(tsv.stacks[2].Region, 10)
    /\ \E k \in DOMAIN tsv.stacks[2].StackTags :
          Contains(k, 10) /\ Contains(tsv.stacks[2].StackTags[k], 10)

\* The keys of a tag map in ascending order.
AscendingKeys(tags) ==
    CHOOSE order \in IterationOrders(tags) :
        \A i, j \in DOMAIN order : i < j => StringLess(order[i], order[j])

TagPair(tags, k) == escapeValue(k) \o <<61>> \o escapeValue(tags[k])

\* C25: the Tags cell of every row is the key=value pairs of the tag map in
\* ascending key order joined by ';', and two renderings of the same list
\* are identical whatever the orders in which the maps were iterated.
C25_TagsDeterministic ==
    /\ tsv.done =>
          \A i \in DOMAIN tsv.stacks :
              LET tags == tsv.stacks[i].StackTags
                  keys == AscendingKeys(tags)
              IN SplitOn(TsvLines[i + 1], 9)[7]
                 = Join([n \in DOMAIN keys |-> TagPair(tags, keys[n])], <<59>>)
    /\ tsv.redone => tsv.again = tsv.out

\* A map of two tags rendered twice, iterated in opposite orders.
C25_Witness ==
    /\ tsv.redone
    /\ \E i \in DOMAIN tsv.stacks :
          /\ Cardinality(DOMAIN tsv.stacks[i].StackTags) = 2
          /\ tsv.iterations[i] # tsv.iterationsAgain[i]

CmdReturned == cmd.pc = "returned"

\* C26: when detection fails because the listing fails, the command prints
\* nothing and returns an error that wraps the listing error; whatever is
\* printed is printed once, after the detection and the formatting have
\* both succeeded, and a command that returns an error has printed nothing.
C26_FailedScanPrintsNothing ==
    /\ (CmdReturned /\ listResult = "err") =>
          /\ cmd.stdout = <<>>
          /\ ~IsNil(cmd.err)
          /\ Unwrap(Unwrap(cmd.err)) = listErr
    /\ (~CmdReturned \/ ~IsNil(cmd.err)) => cmd.stdout = <<>>
    /\ cmd.stdout # <<>> =>
          /\ Finished
          /\ IsNil(retErr)
          /\ cmd.stdout = <<[format |-> cmd.format, stacks |-> retStacks]>>
          /\ cmd.format \in {"json", "tsv"}

\* The listing of a non-empty account failed during detection, after the
\* validation listing had succeeded.
C26_Witness ==
    /\ CmdReturned
    /\ listResult = "err"
    /\ stacks # <<>>
    /\ cmd.stdout = <<>>
    /\ ~IsNil(cmd.err)
    /\ ErrorText(cmd.err) =
           "detection failed: failed to detect serverless stacks: access denied to list stacks"

Count(list, x) == Cardinality({ k \in DOMAIN list : list[k] = x })

SameMultiset(a, b) ==
    /\ Len(a) = Len(b)
    /\ \A k \in DOMAIN a : Count(a, a[k]) = Count(b, a[k])

\* C28: when the listing succeeded, the list DetectServerlessStacks returns
\* holds the same stacks, each as many times, as the candidates processed
\* one after another in a single loop, for every pool size and every
\* interleaving of the workers; only the order may differ.
C28_SequentialEquivalence ==
    (Finished /\ listResult = "ok") =>
        \E now \in Clock : SameMultiset(retStacks, SequentialScan(summaries, now))

\* Two workers reported two stacks in the order opposite to the list order.
C28_Witness ==
    /\ Finished
    /\ listResult = "ok"
    /\ numWorkers = 2
    /\ Len(retStacks) = 2
    /\ \E now \in Clock :
          /\ retStacks # SequentialScan(summaries, now)
          /\ SameMultiset(retStacks, SequentialScan(summaries, now))

Sends(i) == Cardinality({ k \in DOMAIN trace[i] : trace[i][k].op = "send" })

\* C29: when DetectServerlessStacks returns after a successful listing, no
\* candidate is left in the job queue and every candidate was taken by
\* exactly one worker, which processed it to its one message on the results
\* channel, whatever value the pool size has, zero and negative included.
C29_EveryQueuedProcessed ==
    (Finished /\ listResult = "ok") =>
        /\ jobs = <<>>
        /\ \A i \in Indices : Sends(i) = 1

\* Job i has left the jobs channel.
Taken(i) == i <= sent /\ \A k \in DOMAIN jobs : jobs[k] # i

\* A worker holds job i and has not yet sent its message.
InHand(i) ==
    \E w \in Workers :
        /\ worker[w].job = i
        /\ worker[w].pc \in {"resources", "details", "evaluate", "send"}

TotalSends ==
    Cardinality(UNION { { <<i, k>> : k \in { n \in DOMAIN trace[i] :
                                               trace[i][n].op = "send" } }
                        : i \in Indices })

\* C30: every job taken from the jobs channel gives exactly one message on
\* the results channel once its worker is done with it, and none before,
\* a nil message for a candidate without a name; neither channel ever holds
\* more messages than there are candidates, so the producer about to send a
\* job and a worker about to send its message always find room, whether or
\* not the collector has begun to receive.
C30_OneMessagePerJob ==
    listResult = "ok" =>
        /\ \A i \in Indices :
              Sends(i) = IF Taken(i) /\ ~InHand(i) THEN 1 ELSE 0
        /\ Len(jobs) <= Len(summaries)
        /\ Len(results) <= TotalSends
        /\ TotalSends <= Len(summaries)
        /\ (pc = "send" /\ sent < Len(summaries)) => Len(jobs) < Len(summaries)
        /\ \A w \in Workers :
              worker[w].pc = "send" =>
                  /\ Len(results) < Len(summaries)
                  /\ ~Named(worker[w].job) => IsNil(worker[w].result)

\* The collector has not begun: one message already waits in the results
\* channel while another worker is about to send the second.
C30_Witness ==
    /\ pc = "send"
    /\ Len(summaries) = 2
    /\ Len(results) = 1
    /\ \E w \in Workers : worker[w].pc = "send"

WorkersDone ==
    \A w \in Workers : worker[w].pc = (IF w <= numWorkers THEN "exit" ELSE "off")

ChannelState ==
    /\ resultsClosed <= 1
    /\ jobsClosed => sent = Len(summaries)
    /\ (listResult = "ok" /\ pc \in {"collect", "done"}) => jobsClosed
    /\ resultsClosed > 0 => (jobsClosed /\ jobs = <<>> /\ WorkersDone)
    /\ (Finished /\ listResult = "ok") =>
          /\ resultsClosed = 1
          /\ results = <<>>
          /\ TotalSends = Len(summaries)
          /\ Len(retStacks) =
                 Cardinality({ i \in Indices : FetchedAndMatching(i) })

ChannelSteps ==
    /\ jobsClosed' # jobsClosed =>
          ~jobsClosed /\ jobsClosed' /\ sent = Len(summaries)
    /\ jobsClosed => jobsClosed'
    /\ resultsClosed' # resultsClosed =>
          resultsClosed = 0 /\ resultsClosed' = 1 /\ WorkersDone
    /\ Len(jobs') > Len(jobs) => ~jobsClosed
    /\ Len(results') > Len(results) => resultsClosed = 0
    /\ (pc = "collect" /\ pc' = "done") => (resultsClosed = 1 /\ results = <<>>)

\* C31: the jobs channel is closed once, after all candidates were sent;
\* the results channel is closed once, after every worker has exited;
\* nothing is sent on a closed channel; the collector ends only when the
\* results channel is closed and empty, every message having been received.
C31_ChannelProtocol == []ChannelState /\ [][ChannelSteps]_vars

\* Two workers, two candidates: both channels closed, both results kept.
C31_Witness ==
    /\ Finished
    /\ listResult = "ok"
    /\ numWorkers = 2
    /\ jobsClosed
    /\ resultsClosed = 1
    /\ Len(retStacks) = 2

CreationTimeOf(i) ==
    IF IsNil(DetailOf(i)) THEN summaries[i].CreationTime
    ELSE Deref(DetailOf(i)).CreationTime

\* C32: the current time stands in for CreatedAt only when neither the
\* fetched detail nor the candidate supplies a creation time, and a stack
\* built without a detail carries the candidate's creation and update times.
C32_FallbackOnlyWithoutTimestamp ==
    \A i \in Indices : \A k \in OutputOf(i) :
        /\ Output[k].CreatedAt \in Clock =>
              /\ NoTime(summaries[i].CreationTime)
              /\ IsNil(DetailOf(i)) \/ NoTime(Deref(DetailOf(i)).CreationTime)
        /\ IsNil(DetailOf(i)) =>
              /\ ~NoTime(summaries[i].CreationTime) =>
                    Output[k].CreatedAt = Deref(summaries[i].CreationTime)
              /\ ~NoTime(summaries[i].LastUpdatedTime) =>
                    Output[k].UpdatedAt = Deref(summaries[i].LastUpdatedTime)

\* C33: no step of a scan changes the detector's pool size, region or rule
\* list, so a scan run after another on the same detector and the same data
\* starts from the same configuration, uses the same number of workers and
\* returns the same error and the same stacks, in some order.
C33_ScanKeepsConfiguration ==
    /\ [][UNCHANGED <<maxWorkers, region, rules>>]_vars
    /\ [](\A k \in DOMAIN scans :
            /\ scans[k].maxWorkers = maxWorkers
            /\ scans[k].region = region
            /\ scans[k].rules = rules
            /\ Finished =>
                  /\ retErr = scans[k].err
                  /\ numWorkers = scans[k].numWorkers
                  /\ SameMultiset(retStacks, scans[k].stacks))

\* A second scan has returned, the pool size being above the number of
\* candidates so that the worker count was clamped in both.
C33_Witness ==
    /\ Finished
    /\ Len(scans) = 1
    /\ listResult = "ok"
    /\ numWorkers < maxWorkers
    /\ Len(retStacks) = 1
    /\ scans[1].stacks = retStacks

\* The attempts in which the API was called and handleError was given its
\* error.
Handled == { k \in DOMAIN retry.history : retry.history[k].answer # "not called" }

ErrorTypes ==
    {"PERMISSION_DENIED", "INVALID_REGION", "RATE_LIMIT", "NETWORK_ERROR",
     "UNKNOWN_ERROR"}

\* C34: handleError returns nil for nil and a classified error for every
\* other error, and returns an error that is already classified as it is,
\* with the type it had, whatever its message or cause.
C34_ClassifiedErrorsKept ==
    \A k \in Handled :
        LET given == retry.history[k].given
            returned == retry.history[k].returned
        IN /\ IsNil(given) <=> IsNil(returned)
           /\ ~IsNil(returned) => Deref(returned).custom \in ErrorTypes
           /\ (~IsNil(given) /\ Deref(given).custom # "") => returned = given

\* C35: the wait that follows the failed retryable attempt number k, counted
\* from 0, is 2^k seconds; there is one wait between two attempts and none
\* after the attempt the call returns from, be it a success, an error that
\* is not retried, or the last attempt allowed.
C35_BackoffSchedule ==
    /\ \A j \in DOMAIN retry.sleeps :
          /\ retry.sleeps[j].seconds = 2 ^ (j - 1)
          /\ j <= retry.maxRetries
          /\ j <= Len(retry.history)
          /\ Retryable(retry.history[j].err)
    /\ retry.pc \in {"sleep", "returned"} =>
          Len(retry.sleeps) = Len(retry.history) - 1
    /\ retry.pc \in {"wait", "call"} =>
          Len(retry.sleeps) = Len(retry.history)

\* Four attempts that all failed with a throttling error: waits of 1, 2 and
\* 4 seconds, none after the fourth.
C35_Witness ==
    /\ RetryReturned
    /\ Len(retry.history) = 4
    /\ \A k \in 1..4 : retry.history[k].answer = "Throttling"
    /\ [j \in DOMAIN retry.sleeps |-> retry.sleeps[j].seconds] = <<1, 2, 4>>

InvalidAssumeRole ==
    /\ ~IsNil(cmd.assumeRole)
    /\ \/ Deref(cmd.assumeRole).RoleARN = ""
       \/ Deref(cmd.assumeRole).Duration < 900
       \/ Deref(cmd.assumeRole).Duration > 43200
       \/ Deref(cmd.assumeRole).SessionName = ""

InvalidConfig ==
    \/ cmd.format \notin {"json", "tsv"}
    \/ region = ""
    \/ InvalidAssumeRole

\* C36: a command whose output format is not exactly json or tsv, whose
\* region is empty or whose AssumeRole configuration is invalid returns an
\* error without creating a client, without any call to the data source
\* and without printing; a command that creates a client has a valid
\* configuration.
C36_ValidationBeforeAccess ==
    /\ (cmd.pc # "off" /\ InvalidConfig) =>
          /\ CmdReturned
          /\ ~IsNil(cmd.err)
          /\ ~cmd.accessed
          /\ listResult = "none" /\ pc = "list" /\ NothingStarted
          /\ cmd.stdout = <<>>
    /\ (cmd.accessed \/ pc # "list") => ~InvalidConfig

\* A session duration one second below the minimum, with a valid format
\* and region: rejected before the client is created.
C36_Witness ==
    /\ CmdReturned
    /\ cmd.format = "json"
    /\ region # ""
    /\ ~IsNil(cmd.assumeRole)
    /\ Deref(cmd.assumeRole).Duration = 899
    /\ ~IsNil(cmd.err)
    /\ ErrorText(cmd.err) =
           "AssumeRole configuration invalid: session duration must be between 900 and 43200 seconds, got 899"
    /\ ~cmd.accessed
    /\ stacks # <<>>
    /\ pc = "list"

====
